---- MODULE Spec2Model ----
(***************************************************************************)
(* Model of the report renderer of src/App.tsx: markdownToHtml (the line   *)
(* normalizer, the block state machine with its code and table buffers,    *)
(* the inline formatter and the list-wrapping pass) and the severity badge *)
(* replace chain the report view applies to its result.                    *)
(*                                                                         *)
(* A string is a sequence of tokens.  A token is either one character of   *)
(* the input (a TLA+ string of length 1) or one piece of markup the code   *)
(* writes (the literal text of the tag, kept whole).  The markup literals  *)
(* of the code hold no asterisk, no newline, no upper-case letter and no   *)
(* '|', so no pattern of the code can match inside one of them.            *)
(***************************************************************************)
EXTENDS Integers, Sequences, FiniteSets, TLC

(***************************************************************************)
(* Bounds of the model.                                                    *)
(***************************************************************************)
MaxLines == 3
MaxPieces == 3
\* the longest document, in lines, made of a few kinds of lines only
MaxLongLines == 5
\* the longest document, in lines, made of lines of every kind
MaxRuleLines == 2
\* the longest document, in lines, with asterisks and empty cells in it
MaxMarkupLines == 3
\* the longest line, in characters, made of asterisks and letters
MaxStarLength == 6
\* the longest document, in lines, rendered more than once
MaxRenderLines == 2
\* documents in the upload form
MaxDocuments == 1
\* calls of handleViewReport suspended at the same time
MaxViewCalls == 1
\* lines of a document of BufferSpec
MaxBufferLines == 5
\* pieces (line contents and line-ending characters) of a document of EndingSpec
MaxEndingPieces == 4

(***************************************************************************)
(* Characters.                                                             *)
(***************************************************************************)
NL == "\n"
CR == "\r"
Whitespace == {" ", "\t", NL, CR}
Digits == {"0", "1", "2", "3", "4", "5", "6", "7", "8", "9"}
UpperLetters ==
  {"A", "B", "C", "D", "E", "F", "G", "H", "I", "J", "K", "L", "M",
   "N", "O", "P", "Q", "R", "S", "T", "U", "V", "W", "X", "Y", "Z"}
LowerLetters ==
  {"a", "b", "c", "d", "e", "f", "g", "h", "i", "j", "k", "l", "m",
   "n", "o", "p", "q", "r", "s", "t", "u", "v", "w", "x", "y", "z"}
\* the class \w of a JavaScript regular expression
WordChars == UpperLetters \cup LowerLetters \cup Digits \cup {"_"}

(***************************************************************************)
(* String primitives (String.prototype and Array.prototype).               *)
(***************************************************************************)
\* the element of a one-element set; Only({f(v) : v \in {e}}) is f(e) with e
\* evaluated once, where LET v == e IN f(v) evaluates e at every use of v
Only(S) == CHOOSE r \in S : TRUE

StartsWith(s, p) == Len(s) >= Len(p) /\ SubSeq(s, 1, Len(p)) = p

EndsWith(s, p) == Len(s) >= Len(p) /\ SubSeq(s, Len(s) - Len(p) + 1, Len(s)) = p

\* s.substring(n): the text from 0-based index n on
Substring(s, n) == SubSeq(s, n + 1, Len(s))

\* is the literal p at (1-based) position k of s
MatchAt(s, k, p) == k >= 1 /\ k + Len(p) - 1 <= Len(s) /\ SubSeq(s, k, k + Len(p) - 1) = p

RECURSIVE TrimLeft(_)
TrimLeft(s) == IF s # << >> /\ Head(s) \in Whitespace THEN TrimLeft(Tail(s)) ELSE s

RECURSIVE TrimRight(_)
TrimRight(s) ==
  IF s # << >> /\ s[Len(s)] \in Whitespace THEN TrimRight(SubSeq(s, 1, Len(s) - 1)) ELSE s

Trim(s) == Only({TrimRight(left) : left \in {TrimLeft(s)}})

\* parts.join(sep), parts a sequence of strings
RECURSIVE Join(_, _)
Join(parts, sep) ==
  IF parts = << >> THEN << >>
  ELSE IF Len(parts) = 1 THEN parts[1]
  ELSE parts[1] \o sep \o Join(Tail(parts), sep)

\* s.split(c) for a one-character separator c: always at least one part
RECURSIVE SplitFrom(_, _, _)
SplitFrom(s, c, cur) ==
  IF s = << >> THEN <<cur>>
  ELSE IF Head(s) = c THEN <<cur>> \o SplitFrom(Tail(s), c, << >>)
  ELSE SplitFrom(Tail(s), c, Append(cur, Head(s)))

Split(s, c) == SplitFrom(s, c, << >>)

\* s.replace(/\r\n/g, '\n')
RECURSIVE ReplaceCRLF(_)
\* the first replace left out
ReplaceCRLFNone(s) == s

ReplaceCRLF(s) ==
  IF s = << >> THEN << >>
  ELSE IF MatchAt(s, 1, <<CR, NL>>) THEN <<NL>> \o ReplaceCRLF(SubSeq(s, 3, Len(s)))
  ELSE <<Head(s)>> \o ReplaceCRLF(Tail(s))

\* s.replace(/\r/g, '\n')
ReplaceCR(s) == [k \in 1..Len(s) |-> IF s[k] = CR THEN NL ELSE s[k]]

\* markdown.replace(/\r\n/g, '\n').replace(/\r/g, '\n') and html.split('\n')
NormalizeLines(markdown) ==
  Only({Split(html, NL) : html \in {ReplaceCR(crlf) : crlf \in {ReplaceCRLF(markdown)}}})

(***************************************************************************)
(* Markup literals written by markdownToHtml.                              *)
(***************************************************************************)
PreOpen == "<pre class=\"bg-gray-100 p-4 rounded overflow-x-auto my-4 text-sm\"><code>"
PreClose == "</code></pre>"
TableOpen == "<table class=\"min-w-full border-collapse my-6\"><thead><tr>"
ThOpen == "<th class=\"border border-gray-300 px-4 py-2 bg-blue-600 text-white text-left\">"
ThClose == "</th>"
TableMid == "</tr></thead><tbody>"
TrOpen == "<tr>"
TdOpen == "<td class=\"border border-gray-300 px-4 py-2\">"
TdClose == "</td>"
TrClose == "</tr>"
TableClose == "</tbody></table>"
H3Open == "<h3 style=\"color: #475569; font-size: 1.25rem; font-weight: 600; margin-top: 1.5rem; margin-bottom: 0.75rem;\">"
H3Close == "</h3>"
H2Open == "<h2 style=\"color: #334155; font-size: 1.5rem; font-weight: 700; margin-top: 2rem; margin-bottom: 1rem; border-left: 5px solid #3b82f6; padding-left: 1rem; background: linear-gradient(90deg, #eff6ff 0%, transparent 100%); padding-top: 0.5rem; padding-bottom: 0.5rem;\">"
H2Close == "</h2>"
H1Open == "<h1 style=\"color: #1e293b; font-size: 2rem; font-weight: 800; margin-top: 2.5rem; margin-bottom: 1.5rem; border-bottom: 3px solid #3b82f6; padding-bottom: 0.75rem;\">"
H1Close == "</h1>"
HrTag == "<hr class=\"my-6 border-t-2 border-gray-300\" />"
BqOpen == "<blockquote class=\"border-l-4 border-blue-500 pl-4 my-4 italic text-gray-700\">"
BqClose == "</blockquote>"
LiOpen == "<li class=\"ml-6 my-1\">"
LiClose == "</li>"
StrongOpen == "<strong class=\"font-semibold\">"
StrongClose == "</strong>"
EmOpen == "<em>"
EmClose == "</em>"
BrTag == "<br/>"
UlOpen == "<ul class=\"list-disc pl-6 my-3\">"
UlClose == "</ul>"

(***************************************************************************)
(* Regular-expression primitives.                                          *)
(***************************************************************************)
\* what '.' does not match
LineTerminators == {NL, CR}

Min(S) == CHOOSE m \in S : \A n \in S : m <= n

\* '.+?' starting at position from and followed by the literal p: the
\* position of the first p that leaves '.+?' at least one character, all of
\* them other than line terminators; 0 when there is no match
DotPlusLazy(s, from, p) ==
  LET Q == {q \in (from + 1)..Len(s) :
              /\ MatchAt(s, q, p)
              /\ \A j \in from..(q - 1) : s[j] \notin LineTerminators}
  IN IF Q = {} THEN 0 ELSE Min(Q)

(***************************************************************************)
(* Inline formatter: .replace(bold).replace(italic).                       *)
(***************************************************************************)
Stars2 == <<"*", "*">>
Stars1 == <<"*">>

\* .replace(/\*\*(.+?)\*\*/g, '<strong class="font-semibold">$1</strong>')
RECURSIVE BoldFrom(_, _)
BoldFrom(s, k) ==
  IF k > Len(s) THEN << >>
  ELSE LET q == IF MatchAt(s, k, Stars2) THEN DotPlusLazy(s, k + 2, Stars2) ELSE 0
       IN IF q # 0
          THEN <<StrongOpen>> \o SubSeq(s, k + 2, q - 1) \o <<StrongClose>> \o BoldFrom(s, q + 2)
          ELSE <<s[k]>> \o BoldFrom(s, k + 1)

ReplaceBold(s) == BoldFrom(s, 1)

\* .replace(/\*(.+?)\*/g, '<em>$1</em>')
RECURSIVE ItalicFrom(_, _)
ItalicFrom(s, k) ==
  IF k > Len(s) THEN << >>
  ELSE LET q == IF MatchAt(s, k, Stars1) THEN DotPlusLazy(s, k + 1, Stars1) ELSE 0
       IN IF q # 0
          THEN <<EmOpen>> \o SubSeq(s, k + 1, q - 1) \o <<EmClose>> \o ItalicFrom(s, q + 1)
          ELSE <<s[k]>> \o ItalicFrom(s, k + 1)

ReplaceItalic(s) == ItalicFrom(s, 1)

\* the two substitutions in the other order
InlineFormatItalicFirst(text) == Only({ReplaceBold(italic) : italic \in {ReplaceItalic(text)}})

\* lines 113-115, 123-125, 132-134: bold, then italic over the result
InlineFormat(text) == Only({ReplaceItalic(bold) : bold \in {ReplaceBold(text)}})

(***************************************************************************)
(* Line classification, on the trimmed line.                               *)
(***************************************************************************)
\* the character U+0060 (grave accent), which a TLA+ string cannot hold
BackTick == "U+0060"

Fence == <<BackTick, BackTick, BackTick>>

\* a fence test that takes the marker alone
IsFenceExact(trimmed) == trimmed = Fence

\* trimmed.startsWith of the three backticks
IsFence(trimmed) == StartsWith(trimmed, Fence)

IsTableRow(trimmed) == StartsWith(trimmed, <<"|">>) /\ EndsWith(trimmed, <<"|">>)

\* length of the match of /^\d+\.\s/, 0 when it does not match
RECURSIVE DigitRun(_, _)
DigitRun(s, k) == IF k <= Len(s) /\ s[k] \in Digits THEN DigitRun(s, k + 1) ELSE k - 1

OrderedMarker(trimmed) ==
  LET d == DigitRun(trimmed, 1)
  IN IF d >= 1 /\ d + 2 <= Len(trimmed) /\ trimmed[d + 1] = "." /\ trimmed[d + 2] \in Whitespace
     THEN d + 2 ELSE 0

(***************************************************************************)
(* Table rendering.                                                        *)
(***************************************************************************)
MapSeq(f(_), xs) == [k \in 1..Len(xs) |-> f(xs[k])]

RECURSIVE Concat(_)
Concat(parts) == IF parts = << >> THEN << >> ELSE Head(parts) \o Concat(Tail(parts))

NonBlank(c) == Trim(c) # << >>

\* row.split('|').filter(c => c.trim()).map(c => c.trim())
Cells(row) == MapSeq(Trim, SelectSeq(Split(row, "|"), NonBlank))

ThCell(h) == <<ThOpen>> \o h \o <<ThClose>>

TdCell(c) == <<TdOpen>> \o c \o <<TdClose>>

TrRow(row) == <<TrOpen>> \o Concat(MapSeq(TdCell, row)) \o <<TrClose>>

\* tableBuffer.slice(1): the second line taken as a body row
BodyLinesFromOne(buf) == SubSeq(buf, 2, Len(buf))

\* tableBuffer.slice(2)
BodyLines(buf) == SubSeq(buf, 3, Len(buf))

TableHtml(buf) ==
  LET headers == Cells(buf[1])
      rows == MapSeq(Cells, BodyLines(buf))
  IN <<TableOpen>> \o Concat(MapSeq(ThCell, headers)) \o <<TableMid>>
     \o Concat(MapSeq(TrRow, rows)) \o <<TableClose>>

\* the end of a table that renders a buffer of one line too
TableFlushAny(buf) == IF Len(buf) >= 1 THEN <<TableHtml(buf)>> ELSE << >>

\* the fragments the end of a table adds to processedLines
TableFlush(buf) == IF Len(buf) >= 2 THEN <<TableHtml(buf)>> ELSE << >>

CodeHtml(buf) == <<PreOpen>> \o Join(buf, <<NL>>) \o <<PreClose>>

(***************************************************************************)
(* The fragment of one line that is neither a fence, nor inside a code     *)
(* block, nor a table row.                                                 *)
(***************************************************************************)
H3Prefix == <<"#", "#", "#", " ">>
H2Prefix == <<"#", "#", " ">>
H1Prefix == <<"#", " ">>
BqPrefix == <<">", " ">>
UlPrefix == <<"-", " ">>
Dashes == <<"-", "-", "-">>
Stars3 == <<"*", "*", "*">>

\* substring(n) that keeps the last character of the prefix
HeadingTextShort(trimmed, n) == Substring(trimmed, n - 1)

\* trimmed.substring(4), trimmed.substring(3), trimmed.substring(2)
HeadingText(trimmed, n) == Substring(trimmed, n)

\* a plain line that loses the white space around it
PlainHtmlTrimmed(line, trimmed) == InlineFormat(trimmed)

\* lines 131-135: the whole line, untrimmed, with the inline formatting
PlainHtml(line, trimmed) == InlineFormat(line)

\* the text of a blockquote with the inline formatting applied to it
BqTextFormatted(trimmed) == InlineFormat(Substring(trimmed, 2))

\* lines 103-105: trimmed.substring(2), as it is
BqText(trimmed) == Substring(trimmed, 2)

LiHtml(text) == <<LiOpen>> \o InlineFormat(text) \o <<LiClose>>

\* the classification without the test for horizontal rules
LineKindWithoutRule(line) ==
  LET trimmed == Trim(line)
  IN IF StartsWith(trimmed, H3Prefix) THEN "h3"
     ELSE IF StartsWith(trimmed, H2Prefix) THEN "h2"
     ELSE IF StartsWith(trimmed, H1Prefix) THEN "h1"
     ELSE IF StartsWith(trimmed, BqPrefix) THEN "blockquote"
     ELSE IF StartsWith(trimmed, UlPrefix) THEN "ul-item"
     ELSE IF OrderedMarker(trimmed) # 0 THEN "ol-item"
     ELSE IF trimmed # << >> THEN "plain"
     ELSE "blank"

\* lines 78-139: the first test of the chain that the trimmed line passes
LineKind(line) ==
  LET trimmed == Trim(line)
  IN IF StartsWith(trimmed, H3Prefix) THEN "h3"
     ELSE IF StartsWith(trimmed, H2Prefix) THEN "h2"
     ELSE IF StartsWith(trimmed, H1Prefix) THEN "h1"
     ELSE IF trimmed = Dashes \/ trimmed = Stars3 THEN "hr"
     ELSE IF StartsWith(trimmed, BqPrefix) THEN "blockquote"
     ELSE IF StartsWith(trimmed, UlPrefix) THEN "ul-item"
     ELSE IF OrderedMarker(trimmed) # 0 THEN "ol-item"
     ELSE IF trimmed # << >> THEN "plain"
     ELSE "blank"

\* the ordered item with its marker left in
OlTextWithMarker(trimmed) == trimmed

\* line 122: trimmed.replace(/^\d+\.\s/, '')
OlText(trimmed) == Substring(trimmed, OrderedMarker(trimmed))

\* nothing pushed for a blank line
BlankHtmlNone == << >>

\* lines 136-139: the line break pushed for a blank line
BlankHtml == <<BrTag>>

LineHtml(line) ==
  LET trimmed == Trim(line)
      kind == LineKind(line)
  IN CASE kind = "h3" -> <<H3Open>> \o HeadingText(trimmed, 4) \o <<H3Close>>
       [] kind = "h2" -> <<H2Open>> \o HeadingText(trimmed, 3) \o <<H2Close>>
       [] kind = "h1" -> <<H1Open>> \o HeadingText(trimmed, 2) \o <<H1Close>>
       [] kind = "hr" -> <<HrTag>>
       [] kind = "blockquote" -> <<BqOpen>> \o BqText(trimmed) \o <<BqClose>>
       [] kind = "ul-item" -> LiHtml(Substring(trimmed, 2))
       [] kind = "ol-item" -> LiHtml(OlText(trimmed))
       [] kind = "plain" -> PlainHtml(line, trimmed)
       [] kind = "blank" -> BlankHtml

(***************************************************************************)
(* List-wrapping pass.                                                     *)
(***************************************************************************)
\* one iteration of the group (<li class="ml-6 my-1">.+?<\/li>\n?) at k:
\* the position after it, 0 when it does not match
LiItemEnd(s, k) ==
  LET q == IF MatchAt(s, k, <<LiOpen>>) THEN DotPlusLazy(s, k + 1, <<LiClose>>) ELSE 0
  IN IF q = 0 THEN 0
     ELSE IF MatchAt(s, q + 1, <<NL>>) THEN q + 2 ELSE q + 1

\* the group without its '+': one item per match
LiRunOfOne(s, k) ==
  Only({IF e = 0 THEN k ELSE e : e \in {LiItemEnd(s, k)}})

\* the greedy '+' over the group: the position after the last iteration
RECURSIVE LiRunEnd(_, _)
LiRunEnd(s, k) ==
  Only({IF e = 0 THEN k ELSE LiRunEnd(s, e) : e \in {LiItemEnd(s, k)}})

\* finalHtml.replace(/(<li class="ml-6 my-1">.+?<\/li>\n?)+/g,
\*                   match => '<ul class="list-disc pl-6 my-3">' + match + '</ul>')
RECURSIVE WrapFrom(_, _)
WrapFrom(s, k) ==
  IF k > Len(s) THEN << >>
  ELSE Only({IF e > k
               THEN <<UlOpen>> \o SubSeq(s, k, e - 1) \o <<UlClose>> \o WrapFrom(s, e)
               ELSE <<s[k]>> \o WrapFrom(s, k + 1) : e \in {LiRunEnd(s, k)}})

WrapLists(s) == WrapFrom(s, 1)

(***************************************************************************)
(* Severity badges of the report view: the chain of seven .replace calls   *)
(* applied to markdownToHtml(report).                                      *)
(***************************************************************************)
SpanCritical == "<span style=\"color: #dc2626; background: #fee2e2; padding: 3px 10px; border-radius: 6px; font-weight: 700; font-size: 0.85em;\">"
SpanHigh == "<span style=\"color: #ea580c; background: #ffedd5; padding: 3px 10px; border-radius: 6px; font-weight: 700; font-size: 0.85em;\">"
SpanMedium == "<span style=\"color: #ca8a04; background: #fef3c7; padding: 3px 10px; border-radius: 6px; font-weight: 700; font-size: 0.85em;\">"
SpanLow == "<span style=\"color: #16a34a; background: #dcfce7; padding: 3px 10px; border-radius: 6px; font-weight: 700; font-size: 0.85em;\">"
SpanP0 == "<span style=\"color: #dc2626; background: #fee2e2; padding: 2px 8px; border-radius: 4px; font-weight: 700; font-size: 0.8em;\">"
SpanP1 == "<span style=\"color: #ea580c; background: #ffedd5; padding: 2px 8px; border-radius: 4px; font-weight: 700; font-size: 0.8em;\">"
SpanP2 == "<span style=\"color: #ca8a04; background: #fef3c7; padding: 2px 8px; border-radius: 4px; font-weight: 700; font-size: 0.8em;\">"
SpanClose == "</span>"

TokCritical == <<"C", "R", "I", "T", "I", "C", "A", "L">>
TokHigh == <<"H", "I", "G", "H">>
TokMedium == <<"M", "E", "D", "I", "U", "M">>
TokLow == <<"L", "O", "W">>
TokP0 == <<"P", "0">>
TokP1 == <<"P", "1">>
TokP2 == <<"P", "2">>

IsWordAt(s, k) == k >= 1 /\ k <= Len(s) /\ s[k] \in WordChars

\* /CRITICAL/, /MEDIUM/, /P0/, /P1/, /P2/: the literal alone
Anywhere(s, k, tok) == MatchAt(s, k, tok)

\* /HIGH/: the rule without its lookahead
HighNoLookahead(s, k, tok) == MatchAt(s, k, tok)

\* /HIGH(?!ER)/
HighPattern(s, k, tok) == MatchAt(s, k, tok) /\ ~MatchAt(s, k + Len(tok), <<"E", "R">>)

\* /\bLOW\b/: the token starts and ends with a word character
LowPattern(s, k, tok) ==
  MatchAt(s, k, tok) /\ ~IsWordAt(s, k - 1) /\ ~IsWordAt(s, k + Len(tok))

\* the pattern of one rule at position k
PatternAt(rule, s, k, tok) ==
  CASE rule = "literal" -> Anywhere(s, k, tok)
    [] rule = "high" -> HighPattern(s, k, tok)
    [] rule = "low" -> LowPattern(s, k, tok)

\* s.replace(/pattern/g, open + tok + '</span>')
RECURSIVE BadgeFrom(_, _, _, _, _)
BadgeFrom(s, k, tok, open, rule) ==
  IF k > Len(s) THEN << >>
  ELSE IF PatternAt(rule, s, k, tok)
       THEN <<open>> \o tok \o <<SpanClose>> \o BadgeFrom(s, k + Len(tok), tok, open, rule)
       ELSE <<s[k]>> \o BadgeFrom(s, k + 1, tok, open, rule)

BadgeCritical(s) == BadgeFrom(s, 1, TokCritical, SpanCritical, "literal")
BadgeHigh(s) == BadgeFrom(s, 1, TokHigh, SpanHigh, "high")
BadgeMedium(s) == BadgeFrom(s, 1, TokMedium, SpanMedium, "literal")
BadgeLow(s) == BadgeFrom(s, 1, TokLow, SpanLow, "low")
BadgeP0(s) == BadgeFrom(s, 1, TokP0, SpanP0, "literal")
BadgeP1(s) == BadgeFrom(s, 1, TokP1, SpanP1, "literal")
BadgeP2(s) == BadgeFrom(s, 1, TokP2, SpanP2, "literal")

\* the chain with the HIGH rule applied a second time
HighlightHighTwice(html) ==
  BadgeP2(BadgeP1(BadgeP0(BadgeLow(BadgeMedium(BadgeHigh(BadgeHigh(BadgeCritical(html))))))))

Highlight(html) ==
  BadgeP2(BadgeP1(BadgeP0(BadgeLow(BadgeMedium(BadgeHigh(BadgeCritical(html)))))))

(***************************************************************************)
(* Inputs.                                                                 *)
(***************************************************************************)
\* the lines documents are made of
LineVocabulary ==
  { <<"|", "A", "|", "B", "|">>,
    <<"|", "-", "|", "-", "|">>,
    <<"|", " ", "1", " ", "|">>,
    Fence,
    <<"c", " ", "*", "s", "*">>,
    <<"-", " ", "a">>,
    <<"1", ".", " ", "b">>,
    <<"#", "#", "#", " ", "H">>,
    <<"#", "#", " ", "H">>,
    <<"#", " ", "H">>,
    <<"#", "x">>,
    <<"-", "-", "-">>,
    <<">", " ", "q">>,
    << >> }

SeqsUpTo(S, n) == UNION {[1..m -> S] : m \in 0..n}

Documents == {Join(ls, <<NL>>) : ls \in SeqsUpTo(LineVocabulary, MaxLines)}

\* the pieces report texts with severity words are made of
SeverityPieces ==
  { TokCritical, TokHigh, TokMedium, TokLow, TokP0, TokP1, TokP2,
    <<"H", "I", "G", "H", "E", "R">>, <<"E", "R">>, <<"B", "E">>, <<"0">>, <<" ">> }

SeverityTexts == {Concat(ps) : ps \in SeqsUpTo(SeverityPieces, MaxPieces)}

\* the pieces of documents with all three kinds of line endings
EndingPieces == {<<"x">>, <<"|">>, Fence, <<CR>>, <<NL>>}

EndingDocuments == {Concat(ps) : ps \in SeqsUpTo(EndingPieces, MaxEndingPieces)}

\* lines with white space around them, for the buffers
BufferVocabulary ==
  { Fence, <<" ", "|", "A", "|", " ">>, <<"x">>, <<" ", "y">> }

BufferDocuments == {Join(ls, <<NL>>) : ls \in SeqsUpTo(BufferVocabulary, MaxBufferLines)}

\* a fence with a language tag
FenceJs == Fence \o <<"j", "s">>

\* the lines of the longer documents: tables, code blocks and what ends them
LongVocabulary ==
  { <<"|", "A", "|", "B", "|">>,
    <<"|", " ", "1", " ", "|">>,
    Fence,
    FenceJs,
    <<"x">>,
    <<"#", "#", "#", " ", "H">> }

LongDocuments == {Join(ls, <<NL>>) : ls \in SeqsUpTo(LongVocabulary, MaxLongLines)}

\* a line of every kind, the two horizontal rules, one with white space around it
RuleVocabulary ==
  LineVocabulary \cup {Stars3, FenceJs, <<" ", "-", "-", "-", " ">>}

RuleDocuments == {Join(ls, <<NL>>) : ls \in SeqsUpTo(RuleVocabulary, MaxRuleLines)}

\* lines with asterisks in every kind of block, table rows with an empty
\* cell between two others, list items of both kinds, blank lines
MarkupVocabulary ==
  { Fence,
    <<"|", "*", "c", "*", "|">>,
    <<"|", " ", "a", " ", "|", " ", " ", "|", " ", "b", " ", "|">>,
    <<"#", " ", "*", "h", "*">>,
    <<">", " ", "*", "q", "*">>,
    <<"-", " ", "*", "a", "*">>,
    <<"1", ".", " ", "b">>,
    <<"1", "2", ".", " ", "*", "*", "c", "*", "*">>,
    <<"*", "p", "*">>,
    <<" ">>,
    << >> }

MarkupDocuments == {Join(ls, <<NL>>) : ls \in SeqsUpTo(MarkupVocabulary, MaxMarkupLines)}

\* one-line documents of asterisks and letters
StarTexts == UNION {[1..m -> {"*", "x"}] : m \in 1..MaxStarLength}

\* the lines of the reports that are rendered more than once
RenderVocabulary ==
  { Fence,
    <<"|", "A", "|", "B", "|">>,
    <<"x">>,
    <<" ", "y">> }

RenderDocuments == {Join(ls, <<NL>>) : ls \in SeqsUpTo(RenderVocabulary, MaxRenderLines)}

(***************************************************************************)
(* State: the locals of one call of markdownToHtml and what the report     *)
(* view hands to the page.                                                 *)
(***************************************************************************)
\* no call remembered
NoCall == [input |-> << >>, output |-> << >>, old |-> FALSE, any |-> FALSE]

VARIABLES
  markdown,        \* the argument of markdownToHtml (the report)
  lines,           \* const lines
  i,               \* loop index, 1-based
  processedLines,  \* const processedLines
  inTable,
  tableBuffer,
  inCodeBlock,
  codeBuffer,
  finalHtml,       \* the value markdownToHtml returns
  reportHtml,      \* the __html the report view sets
  pc,              \* "called", "loop", "returned", "shown"
  seen,            \* history: one earlier call of markdownToHtml, its argument
                   \* and its result, and whether another call was made since
  view,            \* useState<ViewType>('upload')
  projectName,     \* useState('')
  documents,       \* useState<ProjectDocument[]>([]): how many there are
  report,          \* useState<string | null>(null): the assessment it is the
                   \* report of, Null without one
  currentAssessmentId,
  isGenerating,
  error,
  sidebarOpen,
  apiKey,          \* localStorage: anthropic_api_key || api_key
  calls,           \* the calls of the async handlers that are suspended at
                   \* an await, each with the place it waits at
  errorTimer,      \* a setTimeout(() => setError(''), 3000) is pending
  sinceReset       \* history: a reset has run and no generation was started
                   \* and no report opened after it

\* the state of the App component
appVars == <<view, projectName, documents, report, currentAssessmentId, isGenerating,
             error, sidebarOpen, apiKey, calls, errorTimer, sinceReset>>

\* the state of the renderer
renderVars == <<markdown, lines, i, processedLines, inTable, tableBuffer, inCodeBlock,
                codeBuffer, finalHtml, reportHtml, pc, seen>>

vars == <<markdown, lines, i, processedLines, inTable, tableBuffer, inCodeBlock,
          codeBuffer, finalHtml, reportHtml, pc, seen, appVars>>

\* null, and what `reportData.id || null` makes of a missing id
Null == 0

\* lines 153-176: the component as mounted, nothing stored in localStorage
AppMounted ==
  /\ view = "upload"
  /\ projectName = ""
  /\ documents = 0
  /\ report = Null
  /\ currentAssessmentId = Null
  /\ isGenerating = FALSE
  /\ error = ""
  /\ sidebarOpen = FALSE
  /\ apiKey = ""
  /\ calls = {}
  /\ errorTimer = FALSE
  /\ sinceReset = FALSE

Init ==
  /\ markdown \in Documents
  /\ lines = << >>
  /\ i = 1
  /\ processedLines = << >>
  /\ inTable = FALSE
  /\ tableBuffer = << >>
  /\ inCodeBlock = FALSE
  /\ codeBuffer = << >>
  /\ finalHtml = << >>
  /\ reportHtml = << >>
  /\ pc = "called"
  /\ seen = NoCall
  /\ AppMounted

\* locals that keep what the call before left in them
StaleLocals(processed, inTab, tabBuf, inCode, codeBuf) ==
  [processedLines |-> processed, inTable |-> inTab, tableBuffer |-> tabBuf,
   inCodeBlock |-> inCode, codeBuffer |-> codeBuf]

\* lines 23-27: the locals as declared, whatever an earlier call left
FreshLocals(processed, inTab, tabBuf, inCode, codeBuf) ==
  [processedLines |-> << >>, inTable |-> FALSE, tableBuffer |-> << >>,
   inCodeBlock |-> FALSE, codeBuffer |-> << >>]

\* lines 18-29: normalize and split the argument, declare the locals, i = 0
Enter(text) ==
  /\ lines' = NormalizeLines(text)
  /\ \E fresh \in {FreshLocals(processedLines, inTable, tableBuffer, inCodeBlock, codeBuffer)} :
       /\ processedLines' = fresh.processedLines
       /\ inTable' = fresh.inTable
       /\ tableBuffer' = fresh.tableBuffer
       /\ inCodeBlock' = fresh.inCodeBlock
       /\ codeBuffer' = fresh.codeBuffer
  /\ i' = 1
  /\ pc' = "loop"

\* lines 18-27: normalize, split, declare the locals
Normalize ==
  /\ pc = "called"
  /\ Enter(markdown)
  /\ UNCHANGED <<markdown, finalHtml, reportHtml, seen, appVars>>

InLoop == pc = "loop" /\ i <= Len(lines)

\* an index that skips a line
NextIndexSkip(k) == k + 2

\* i++ of the for statement, reached by every 'continue' and by the end of the body
NextIndex(k) == k + 1

\* what the closing fence pushes
FenceClose(buf) == <<CodeHtml(buf)>>

\* a closing fence that leaves the code buffer as it is
FenceLineKeepsBuffer ==
  /\ InLoop
  /\ IsFence(Trim(lines[i]))
  /\ IF inCodeBlock
     THEN /\ processedLines' = processedLines \o FenceClose(codeBuffer)
          /\ inCodeBlock' = FALSE
          /\ UNCHANGED codeBuffer
     ELSE /\ inCodeBlock' = TRUE
          /\ UNCHANGED <<processedLines, codeBuffer>>
  /\ i' = NextIndex(i)
  /\ UNCHANGED <<markdown, lines, inTable, tableBuffer, finalHtml, reportHtml, pc, seen, appVars>>

\* lines 34-45: a fence line opens or closes a code block
FenceLine ==
  /\ InLoop
  /\ IsFence(Trim(lines[i]))
  /\ IF inCodeBlock
     THEN /\ processedLines' = processedLines \o FenceClose(codeBuffer)
          /\ codeBuffer' = << >>
          /\ inCodeBlock' = FALSE
     ELSE /\ inCodeBlock' = TRUE
          /\ UNCHANGED <<processedLines, codeBuffer>>
  /\ i' = NextIndex(i)
  /\ UNCHANGED <<markdown, lines, inTable, tableBuffer, finalHtml, reportHtml, pc, seen, appVars>>

\* a line inside a code block that ends the table buffered before the block
CodeLineEndsTable ==
  /\ InLoop
  /\ ~IsFence(Trim(lines[i]))
  /\ inCodeBlock
  /\ codeBuffer' = Append(codeBuffer, lines[i])
  /\ inTable' = FALSE
  /\ tableBuffer' = << >>
  /\ i' = NextIndex(i)
  /\ UNCHANGED <<markdown, lines, processedLines, inCodeBlock,
                 finalHtml, reportHtml, pc, seen, appVars>>

\* lines 47-50: a line inside a code block
CodeLine ==
  /\ InLoop
  /\ ~IsFence(Trim(lines[i]))
  /\ inCodeBlock
  /\ codeBuffer' = Append(codeBuffer, lines[i])
  /\ i' = NextIndex(i)
  /\ UNCHANGED <<markdown, lines, processedLines, inTable, tableBuffer, inCodeBlock,
                 finalHtml, reportHtml, pc, seen, appVars>>

\* lines 53-59: a table row
TableRow ==
  /\ InLoop
  /\ ~IsFence(Trim(lines[i]))
  /\ ~inCodeBlock
  /\ IsTableRow(Trim(lines[i]))
  /\ inTable' = TRUE
  /\ tableBuffer' = Append(IF inTable THEN tableBuffer ELSE << >>, lines[i])
  /\ i' = NextIndex(i)
  /\ UNCHANGED <<markdown, lines, processedLines, inCodeBlock, codeBuffer,
                 finalHtml, reportHtml, pc, seen, appVars>>

\* a line that the end of a table consumes ('continue' after the flush)
AfterFlushConsumed(line, inTab) == IF inTab THEN << >> ELSE <<LineHtml(line)>>

\* lines 75-139: no 'continue' after the flush, the line that ended the
\* table goes on to the tests for headings, rules, quotes, items, text
AfterFlush(line, inTab) == <<LineHtml(line)>>

\* lines 60-139: any other line ends a table that was being buffered and
\* then gives its own fragment
BlockLine ==
  /\ InLoop
  /\ ~IsFence(Trim(lines[i]))
  /\ ~inCodeBlock
  /\ ~IsTableRow(Trim(lines[i]))
  /\ processedLines' =
       processedLines \o (IF inTable THEN TableFlush(tableBuffer) ELSE << >>)
                      \o AfterFlush(lines[i], inTable)
  /\ inTable' = FALSE
  /\ tableBuffer' = IF inTable THEN << >> ELSE tableBuffer
  /\ i' = NextIndex(i)
  /\ UNCHANGED <<markdown, lines, inCodeBlock, codeBuffer, finalHtml, reportHtml, pc, seen, appVars>>

\* an end of input that flushes an open code block
AtEndFlushCode(processed, inTab, tabBuf, inCode, codeBuf) ==
  processed \o (IF inCode THEN <<CodeHtml(codeBuf)>> ELSE << >>)

\* lines 140-143: the fragments that are joined once the loop has ended
AtEndOfInput(processed, inTab, tabBuf, inCode, codeBuf) == processed

\* lines 142-148: join, wrap the list items, return
Return ==
  /\ pc = "loop"
  /\ i > Len(lines)
  /\ \E joined \in {Join(AtEndOfInput(processedLines, inTable, tableBuffer,
                                     inCodeBlock, codeBuffer), <<NL>>)} :
       finalHtml' = WrapLists(joined)
  /\ pc' = "returned"
  /\ UNCHANGED <<markdown, lines, i, processedLines, inTable, tableBuffer,
                 inCodeBlock, codeBuffer, reportHtml, seen, appVars>>

\* lines 937-946: the report view badges the rendered report
ReportView ==
  /\ pc = "returned"
  /\ reportHtml' = Highlight(finalHtml)
  /\ pc' = "shown"
  /\ UNCHANGED <<markdown, lines, i, processedLines, inTable, tableBuffer,
                 inCodeBlock, codeBuffer, finalHtml, seen, appVars>>

Next ==
  \/ Normalize
  \/ FenceLine
  \/ CodeLine
  \/ TableRow
  \/ BlockLine
  \/ Return
  \/ ReportView

Spec == Init /\ [][Next]_vars

\* the steps of one call of markdownToHtml
MarkdownToHtml == Normalize \/ FenceLine \/ CodeLine \/ TableRow \/ BlockLine \/ Return

\* the call is synchronous: once made it runs to its end, nothing suspends it
FairSpec == Spec /\ WF_vars(MarkdownToHtml)
\* the state after markdownToHtml has returned for a report of one line
\* made of severity words
InitSeverity ==
  /\ markdown \in SeverityTexts
  /\ lines = NormalizeLines(markdown)
  /\ i = Len(lines) + 1
  /\ processedLines = <<LineHtml(lines[1])>>
  /\ inTable = FALSE
  /\ tableBuffer = << >>
  /\ inCodeBlock = FALSE
  /\ codeBuffer = << >>
  /\ finalHtml = WrapLists(Join(processedLines, <<NL>>))
  /\ reportHtml = << >>
  /\ pc = "returned"
  /\ seen = NoCall
  /\ AppMounted

NextSeverity == ReportView

SeveritySpec == InitSeverity /\ [][NextSeverity]_vars

InitLong ==
  /\ markdown \in LongDocuments
  /\ lines = << >>
  /\ i = 1
  /\ processedLines = << >>
  /\ inTable = FALSE
  /\ tableBuffer = << >>
  /\ inCodeBlock = FALSE
  /\ codeBuffer = << >>
  /\ finalHtml = << >>
  /\ reportHtml = << >>
  /\ pc = "called"
  /\ seen = NoCall
  /\ AppMounted

LongSpec == InitLong /\ [][Next]_vars

InitRule ==
  /\ markdown \in RuleDocuments
  /\ lines = << >>
  /\ i = 1
  /\ processedLines = << >>
  /\ inTable = FALSE
  /\ tableBuffer = << >>
  /\ inCodeBlock = FALSE
  /\ codeBuffer = << >>
  /\ finalHtml = << >>
  /\ reportHtml = << >>
  /\ pc = "called"
  /\ seen = NoCall
  /\ AppMounted

RuleSpec == InitRule /\ [][Next]_vars

InitMarkup ==
  /\ markdown \in MarkupDocuments \cup StarTexts
  /\ lines = << >>
  /\ i = 1
  /\ processedLines = << >>
  /\ inTable = FALSE
  /\ tableBuffer = << >>
  /\ inCodeBlock = FALSE
  /\ codeBuffer = << >>
  /\ finalHtml = << >>
  /\ reportHtml = << >>
  /\ pc = "called"
  /\ seen = NoCall
  /\ AppMounted

MarkupSpec == InitMarkup /\ [][Next]_vars

InitRender ==
  /\ markdown \in RenderDocuments
  /\ lines = << >>
  /\ i = 1
  /\ processedLines = << >>
  /\ inTable = FALSE
  /\ tableBuffer = << >>
  /\ inCodeBlock = FALSE
  /\ codeBuffer = << >>
  /\ finalHtml = << >>
  /\ reportHtml = << >>
  /\ pc = "called"
  /\ seen = NoCall
  /\ AppMounted

\* line 938 when the report view is rendered again: markdownToHtml is called
\* with the report of that render and runs lines 18-29; the call that has
\* returned is remembered, or an older one is kept
Rerender ==
  /\ pc = "shown"
  /\ \E rendered \in RenderDocuments :
       /\ markdown' = rendered
       /\ Enter(rendered)
  /\ finalHtml' = << >>
  /\ reportHtml' = << >>
  /\ seen' \in {[seen EXCEPT !.old = seen.any],
                [input |-> markdown, output |-> finalHtml, old |-> FALSE, any |-> TRUE]}
  /\ UNCHANGED appVars

NextRender ==
  \/ Normalize
  \/ FenceLine
  \/ CodeLine
  \/ TableRow
  \/ BlockLine
  \/ Return
  \/ ReportView
  \/ Rerender

RenderSpec == InitRender /\ [][NextRender]_vars

InitBuffer ==
  /\ markdown \in BufferDocuments
  /\ lines = << >>
  /\ i = 1
  /\ processedLines = << >>
  /\ inTable = FALSE
  /\ tableBuffer = << >>
  /\ inCodeBlock = FALSE
  /\ codeBuffer = << >>
  /\ finalHtml = << >>
  /\ reportHtml = << >>
  /\ pc = "called"
  /\ seen = NoCall
  /\ AppMounted

BufferSpec == InitBuffer /\ [][Next]_vars

InitEnding ==
  /\ markdown \in EndingDocuments
  /\ lines = << >>
  /\ i = 1
  /\ processedLines = << >>
  /\ inTable = FALSE
  /\ tableBuffer = << >>
  /\ inCodeBlock = FALSE
  /\ codeBuffer = << >>
  /\ finalHtml = << >>
  /\ reportHtml = << >>
  /\ pc = "called"
  /\ seen = NoCall
  /\ AppMounted

\* the lines of a text as its author wrote them: a line ends at "\r\n", at
\* a "\r" alone or at a "\n" alone
RECURSIVE WrittenFrom(_, _, _)
WrittenFrom(s, k, cur) ==
  IF k > Len(s) THEN <<cur>>
  ELSE IF s[k] = CR /\ k < Len(s) /\ s[k + 1] = NL THEN <<cur>> \o WrittenFrom(s, k + 2, << >>)
  ELSE IF s[k] \in {CR, NL} THEN <<cur>> \o WrittenFrom(s, k + 1, << >>)
  ELSE WrittenFrom(s, k + 1, Append(cur, s[k]))

WrittenLines(s) == WrittenFrom(s, 1, << >>)

LineEndings == {<<NL>>, <<CR, NL>>, <<CR>>}

\* line 938 when the report view is rendered again with the same report
\* saved with LF, CRLF or CR line endings: markdownToHtml runs lines 18-29
\* on it; the call that has returned is remembered
RerenderOtherEndings ==
  /\ pc = "shown"
  /\ \E ending \in LineEndings :
       \E rendered \in {Join(WrittenLines(markdown), ending)} :
         /\ rendered # markdown
         /\ markdown' = rendered
         /\ Enter(rendered)
  /\ finalHtml' = << >>
  /\ reportHtml' = << >>
  /\ seen' = [input |-> markdown, output |-> finalHtml, old |-> FALSE, any |-> TRUE]
  /\ UNCHANGED appVars

NextEnding ==
  \/ Normalize
  \/ FenceLine
  \/ CodeLine
  \/ TableRow
  \/ BlockLine
  \/ Return
  \/ ReportView
  \/ RerenderOtherEndings

EndingSpec == InitEnding /\ [][NextEnding]_vars

(***************************************************************************)
(* The App component: the handlers that set report, currentAssessmentId,   *)
(* view and isGenerating. An async handler runs to its next await in one   *)
(* step; what it awaits settles in a later step, after any other handler.  *)
(***************************************************************************)
\* the assessments the server holds reports of
AssessmentIds == {1, 2}

\* what localStorage may hold: nothing, white space, a key
StoredKeys == {"", " ", "sk"}

MissingInput == "Please provide project name and upload at least one document"
MissingKey == "SecureAI API key is missing."
Completed == "Assessment completed successfully!"
GenerateFailed == "Failed to generate threat assessment"
LoadFailed == "Failed to load report"

InitApp ==
  /\ markdown = << >>
  /\ lines = << >>
  /\ i = 1
  /\ processedLines = << >>
  /\ inTable = FALSE
  /\ tableBuffer = << >>
  /\ inCodeBlock = FALSE
  /\ codeBuffer = << >>
  /\ finalHtml = << >>
  /\ reportHtml = << >>
  /\ pc = "called"
  /\ seen = NoCall
  /\ view = "upload"
  /\ projectName = ""
  /\ documents = 0
  /\ report = Null
  /\ currentAssessmentId = Null
  /\ isGenerating = FALSE
  /\ error = ""
  /\ sidebarOpen = FALSE
  /\ apiKey \in StoredKeys
  /\ calls = {}
  /\ errorTimer = FALSE
  /\ sinceReset = FALSE

\* a suspended call: the handler, the await it is at, its argument
Call(handler, at, id) == [handler |-> handler, at |-> at, id |-> id]

GenerateCalls == {c \in calls : c.handler = "generate"}

ViewCalls == {c \in calls : c.handler = "view"}

\* the call moves to its next await
Moves(c, at) == calls' = (calls \ {c}) \cup {Call(c.handler, at, c.id)}

\* the call has run to its end
Ends(c) == calls' = calls \ {c}

\* the project name field of the upload form is edited
SetProjectName ==
  /\ \E name \in {"", "P"} : name # projectName /\ projectName' = name
  /\ UNCHANGED <<renderVars, view, documents, report, currentAssessmentId, isGenerating,
                 error, sidebarOpen, apiKey, calls, errorTimer, sinceReset>>

\* lines 226-229
HandleFilesAdded ==
  /\ documents < MaxDocuments
  /\ documents' = documents + 1
  /\ error' = ""
  /\ UNCHANGED <<renderVars, view, projectName, report, currentAssessmentId, isGenerating,
                 sidebarOpen, apiKey, calls, errorTimer, sinceReset>>

\* lines 208-224: the fields resetForm sets
ResetForm ==
  /\ projectName' = ""
  /\ documents' = 0
  /\ report' = Null
  /\ currentAssessmentId' = Null
  /\ error' = ""

\* lines 461-464: 'New Assessment' of the navigation bar
NewAssessmentClick ==
  /\ ResetForm
  /\ view' = "upload"
  /\ sinceReset' = TRUE
  /\ UNCHANGED <<renderVars, isGenerating, sidebarOpen, apiKey, calls, errorTimer>>

\* lines 377-394, from the button of the report view (lines 908, 921-923)
HandleResetForm ==
  /\ view = "report"
  /\ report # Null
  /\ projectName' = ""
  /\ documents' = 0
  /\ report' = Null
  /\ currentAssessmentId' = Null
  /\ view' = "upload"
  /\ error' = ""
  /\ sinceReset' = TRUE
  /\ UNCHANGED <<renderVars, isGenerating, sidebarOpen, apiKey, calls, errorTimer>>

\* the generating flag is left as it is
FinallyKeepsFlag == UNCHANGED isGenerating

\* lines 319-321
Finally == isGenerating' = FALSE

\* lines 316-321: catch, then finally; the call has run to its end
CatchFinally(c) ==
  /\ error' = GenerateFailed
  /\ Finally
  /\ Ends(c)
  /\ UNCHANGED <<renderVars, view, projectName, documents, report, currentAssessmentId,
                 sidebarOpen, apiKey, errorTimer, sinceReset>>

\* lines 231-250, from the button of the upload form, which is disabled
\* while isGenerating (line 862): the pre-checks, then the request is sent
HandleGenerateReport ==
  /\ ~isGenerating
  /\ IF projectName = "" \/ documents = 0
     THEN /\ error' = MissingInput
          /\ UNCHANGED <<isGenerating, sidebarOpen, calls, sinceReset>>
     ELSE IF apiKey = "" \/ Trim(<<apiKey>>) = << >>
     THEN /\ error' = MissingKey
          /\ sidebarOpen' = TRUE
          /\ UNCHANGED <<isGenerating, calls, sinceReset>>
     ELSE /\ isGenerating' = TRUE
          /\ error' = ""
          /\ calls' = calls \cup {Call("generate", "fetch", Null)}
          /\ sinceReset' = FALSE
          /\ UNCHANGED sidebarOpen
  /\ UNCHANGED <<renderVars, view, projectName, documents, report, currentAssessmentId,
                 apiKey, errorTimer>>

\* line 250: fetch resolves with a response; line 276 or 304 awaits its body
GenerateResponse ==
  \E c \in GenerateCalls :
    /\ c.at = "fetch"
    /\ \E ok \in BOOLEAN : Moves(c, IF ok THEN "json" ELSE "errorJson")
    /\ UNCHANGED <<renderVars, view, projectName, documents, report, currentAssessmentId,
                   isGenerating, error, sidebarOpen, apiKey, errorTimer, sinceReset>>

\* line 250: fetch rejects
GenerateNetworkError ==
  \E c \in GenerateCalls : c.at = "fetch" /\ CatchFinally(c)

\* lines 278-283: the body of the error is not JSON, its text is awaited
GenerateErrorNotJson ==
  \E c \in GenerateCalls :
    /\ c.at = "errorJson"
    /\ Moves(c, "errorText")
    /\ UNCHANGED <<renderVars, view, projectName, documents, report, currentAssessmentId,
                   isGenerating, error, sidebarOpen, apiKey, errorTimer, sinceReset>>

\* lines 276-302: the message is made and thrown
GenerateThrows ==
  \E c \in GenerateCalls : c.at \in {"errorJson", "errorText"} /\ CatchFinally(c)

\* line 304: response.json() rejects
GenerateBodyNotJson ==
  \E c \in GenerateCalls : c.at = "json" /\ CatchFinally(c)

\* lines 304-315: the report of a new assessment, its id there or not
GenerateSucceeds ==
  \E c \in GenerateCalls :
    /\ c.at = "json"
    /\ \E reportData \in {[report |-> a, id |-> IF sent THEN a ELSE 0] :
                            a \in AssessmentIds, sent \in BOOLEAN} :
         /\ report' = reportData.report
         /\ currentAssessmentId' = IF reportData.id # 0 THEN reportData.id ELSE Null
    /\ view' = "report"
    /\ error' = Completed
    /\ errorTimer' = TRUE
    /\ Moves(c, "refresh")
    /\ UNCHANGED <<renderVars, projectName, documents, isGenerating, sidebarOpen, apiKey,
                   sinceReset>>

\* line 313: the timer fires
ErrorTimerFires ==
  /\ errorTimer
  /\ error' = ""
  /\ errorTimer' = FALSE
  /\ UNCHANGED <<renderVars, view, projectName, documents, report, currentAssessmentId,
                 isGenerating, sidebarOpen, apiKey, calls, sinceReset>>

\* lines 315, 319-321: fetchSavedReports has returned
GenerateFinishes ==
  \E c \in GenerateCalls :
    /\ c.at = "refresh"
    /\ Finally
    /\ Ends(c)
    /\ UNCHANGED <<renderVars, view, projectName, documents, report, currentAssessmentId,
                   error, sidebarOpen, apiKey, errorTimer, sinceReset>>

\* lines 353-361, from the list of past assessments (line 955): the request
\* is sent
HandleViewReport ==
  /\ Cardinality(ViewCalls) < MaxViewCalls
  /\ \E assessmentId \in AssessmentIds :
       /\ Call("view", "fetch", assessmentId) \notin calls
       /\ calls' = calls \cup {Call("view", "fetch", assessmentId)}
  /\ sinceReset' = FALSE
  /\ UNCHANGED <<renderVars, view, projectName, documents, report, currentAssessmentId,
                 isGenerating, error, sidebarOpen, apiKey, errorTimer>>

\* lines 356-364: fetch resolves with an OK response, its body is awaited
ViewResponseOk ==
  \E c \in ViewCalls :
    /\ c.at = "fetch"
    /\ Moves(c, "json")
    /\ UNCHANGED <<renderVars, view, projectName, documents, report, currentAssessmentId,
                   isGenerating, error, sidebarOpen, apiKey, errorTimer, sinceReset>>

\* lines 364-367
ViewSucceeds ==
  \E c \in ViewCalls :
    /\ c.at = "json"
    /\ report' = c.id
    /\ currentAssessmentId' = c.id
    /\ view' = "report"
    /\ Ends(c)
    /\ UNCHANGED <<renderVars, projectName, documents, isGenerating, error, sidebarOpen,
                   apiKey, errorTimer, sinceReset>>

\* lines 368-374: the response is not OK, fetch rejects or the body is not JSON
ViewFails ==
  \E c \in ViewCalls :
    /\ error' = LoadFailed
    /\ Ends(c)
    /\ UNCHANGED <<renderVars, view, projectName, documents, report, currentAssessmentId,
                   isGenerating, sidebarOpen, apiKey, errorTimer, sinceReset>>

\* the steps a suspended call of handleGenerateReport goes on with
GenerateSteps ==
  \/ GenerateResponse
  \/ GenerateNetworkError
  \/ GenerateErrorNotJson
  \/ GenerateThrows
  \/ GenerateBodyNotJson
  \/ GenerateSucceeds
  \/ GenerateFinishes

NextApp ==
  \/ SetProjectName
  \/ HandleFilesAdded
  \/ NewAssessmentClick
  \/ HandleResetForm
  \/ HandleGenerateReport
  \/ GenerateResponse
  \/ GenerateNetworkError
  \/ GenerateErrorNotJson
  \/ GenerateThrows
  \/ GenerateBodyNotJson
  \/ GenerateSucceeds
  \/ ErrorTimerFires
  \/ GenerateFinishes
  \/ HandleViewReport
  \/ ViewResponseOk
  \/ ViewSucceeds
  \/ ViewFails

AppSpec == InitApp /\ [][NextApp]_vars

\* what a call awaits settles: the request is answered or fails
FairAppSpec == AppSpec /\ WF_vars(GenerateSteps)

(***************************************************************************)
(* Vocabulary of the properties.                                           *)
(***************************************************************************)
Last(xs) == xs[Len(xs)]

Count(s, tok) == Cardinality({k \in 1..Len(s) : s[k] = tok})

\* the number of tokens tok in all the fragments
CountAll(frags, tok) == Count(Concat(frags), tok)

CurrentLine == lines[i]

CurrentTrimmed == Trim(lines[i])

\* the loop is at a line it will classify (not a fence, not inside a code
\* block, not a table row)
AtBlockLine ==
  /\ InLoop
  /\ ~IsFence(CurrentTrimmed)
  /\ ~inCodeBlock
  /\ ~IsTableRow(CurrentTrimmed)

Returning == pc = "loop" /\ pc' = "returned"

IsListItem(frag) == frag # << >> /\ Head(frag) = LiOpen

\* the number of maximal runs of consecutive list-item fragments
ListRuns(frags) ==
  Cardinality({k \in 1..Len(frags) :
                 IsListItem(frags[k]) /\ (k = 1 \/ ~IsListItem(frags[k - 1]))})

\* how many of the first k tokens of s are tok
CountTo(s, k, tok) == Cardinality({j \in 1..k : s[j] = tok})

\* the number of lists open after the first k tokens of s
UlDepth(s, k) == CountTo(s, k, UlOpen) - CountTo(s, k, UlClose)

\* the number of list items open after the first k tokens of s
LiDepth(s, k) == CountTo(s, k, LiOpen) - CountTo(s, k, LiClose)

Without(s, toks) == SelectSeq(s, LAMBDA t : t \notin toks)

(***************************************************************************)
(* C1: when the input ends while a table of at least 2 lines is being      *)
(* buffered, the table is rendered: a document without fences whose last   *)
(* lines are table rows (two or more) ends with the table made of those    *)
(* rows, header cells from the first of them.                              *)
(***************************************************************************)
NoFenceIn(ls) == \A k \in 1..Len(ls) : ~IsFence(Trim(ls[k]))

\* the length of the longest run of table rows that ends the document
TrailingRows(ls) ==
  CHOOSE m \in 0..Len(ls) :
    /\ \A k \in (Len(ls) - m + 1)..Len(ls) : IsTableRow(Trim(ls[k]))
    /\ (m < Len(ls) => ~IsTableRow(Trim(ls[Len(ls) - m])))

C1_TableAtEndOfInputIsRendered ==
  (pc = "returned" /\ NoFenceIn(lines) /\ TrailingRows(lines) >= 2)
    => EndsWith(finalHtml,
                TableHtml(SubSeq(lines, Len(lines) - TrailingRows(lines) + 1, Len(lines))))

(***************************************************************************)
(* C2: the parser is in exactly one of Normal, InCodeBlock, InTable:       *)
(* inCodeBlock and inTable are never true together.                        *)
(***************************************************************************)
C2_OneParserState == ~(inCodeBlock /\ inTable)

C4_ClosingFence ==
  [][(InLoop /\ IsFence(CurrentTrimmed) /\ inCodeBlock)
       => /\ processedLines' =
               Append(processedLines, <<PreOpen>> \o Join(codeBuffer, <<NL>>) \o <<PreClose>>)
          /\ codeBuffer' = << >>
          /\ ~inCodeBlock'
          /\ ~inTable']_vars

(***************************************************************************)
(* C5: every severity rule matches whole words only: each badge of the     *)
(* rendered report wraps a token that has no letter, digit or underscore   *)
(* directly before or after it in the text that was highlighted.           *)
(***************************************************************************)
BadgeOpens == {SpanCritical, SpanHigh, SpanMedium, SpanLow, SpanP0, SpanP1, SpanP2}

\* for every token of r that is not badge markup, in order: the place of the
\* badge opening it lies in (0 outside badges) and its own place in r
RECURSIVE MarksFrom(_, _, _)
MarksFrom(r, k, open) ==
  IF k > Len(r) THEN << >>
  ELSE IF r[k] \in BadgeOpens THEN MarksFrom(r, k + 1, k)
  ELSE IF r[k] = SpanClose THEN MarksFrom(r, k + 1, 0)
  ELSE <<[badge |-> open, at |-> k]>> \o MarksFrom(r, k + 1, open)

Marks(r) == MarksFrom(r, 1, 0)

BadgeAt(m, k) == IF k >= 1 /\ k <= Len(m) THEN m[k].badge ELSE 0

C5_BadgesOnWholeWordsOnly ==
  pc = "shown" =>
    LET m == Marks(reportHtml)
    IN /\ Len(m) = Len(finalHtml)
       /\ \A k \in 1..Len(m) :
            /\ (m[k].badge # 0 /\ BadgeAt(m, k - 1) # m[k].badge) => ~IsWordAt(finalHtml, k - 1)
            /\ (m[k].badge # 0 /\ BadgeAt(m, k + 1) # m[k].badge) => ~IsWordAt(finalHtml, k + 1)

(***************************************************************************)
(* C6: the highlighter wraps each standalone HIGH (the four letters and    *)
(* nothing else) in the high-severity badge and leaves every HIGHER as it  *)
(* is: no markup before, inside or after any of its letters.               *)
(***************************************************************************)
Higher == <<"H", "I", "G", "H", "E", "R">>

StandaloneHighAt(t, k) ==
  MatchAt(t, k, TokHigh) /\ ~IsWordAt(t, k - 1) /\ ~IsWordAt(t, k + 4)

C6_HighBadgedHigherUntouched ==
  pc = "shown" =>
    LET t == finalHtml
        r == reportHtml
        m == Marks(r)
    IN /\ Without(r, BadgeOpens \cup {SpanClose}) = t
       /\ \A k \in 1..Len(t) :
            /\ StandaloneHighAt(t, k) =>
                 /\ m[k].at >= 2
                 /\ r[m[k].at - 1] = SpanHigh
                 /\ SubSeq(r, m[k].at, m[k].at + 4) = TokHigh \o <<SpanClose>>
            /\ MatchAt(t, k, Higher) =>
                 /\ \A j \in k..(k + 5) : m[j].badge = 0
                 /\ SubSeq(r, m[k].at, m[k].at + 5) = Higher

C6_Witness ==
  /\ pc = "shown"
  /\ \E k \in 1..Len(finalHtml) : StandaloneHighAt(finalHtml, k)
  /\ \E k \in 1..Len(finalHtml) : MatchAt(finalHtml, k, Higher)
  /\ Count(reportHtml, SpanHigh) = 1

(***************************************************************************)
(* C7: when the input ends inside a code block the code buffer is not      *)
(* flushed: the lines after the unmatched fence add no fragment, and the   *)
(* output is made of the fragments pushed before that fence and of nothing *)
(* else (one <pre><code> per closing fence, none for the open block).      *)
(***************************************************************************)
FenceLines(ls) == Cardinality({k \in 1..Len(ls) : IsFence(Trim(ls[k]))})

C7_UnclosedFenceDropsCode ==
  [][/\ (InLoop /\ inCodeBlock /\ ~IsFence(CurrentTrimmed))
          => processedLines' = processedLines
     /\ (Returning /\ inCodeBlock)
          => /\ Count(finalHtml', PreOpen) = FenceLines(lines) \div 2
             /\ Without(finalHtml', {UlOpen, UlClose}) = Join(processedLines, <<NL>>)]_vars

C7_Witness ==
  /\ pc = "returned"
  /\ inCodeBlock
  /\ codeBuffer # << >>
  /\ processedLines # << >>
  /\ Count(finalHtml, PreOpen) = 0

(***************************************************************************)
(* C8: a table buffer of fewer than 2 lines gives no output: the line that *)
(* ends it adds its own fragment and nothing else, and at the end of the   *)
(* input nothing is added for it; the buffered line is not emitted.        *)
(***************************************************************************)
C8_ShortTableDiscarded ==
  [][/\ (AtBlockLine /\ inTable /\ Len(tableBuffer) < 2)
          => /\ Len(processedLines') = Len(processedLines) + 1
             /\ SubSeq(processedLines', 1, Len(processedLines)) = processedLines
             /\ CountAll(processedLines', TableOpen) = CountAll(processedLines, TableOpen)
             /\ Last(processedLines') = LineHtml(CurrentLine)
             /\ tableBuffer' = << >>
     /\ (Returning /\ inTable /\ Len(tableBuffer) < 2)
          => /\ Count(finalHtml', TableOpen) = CountAll(processedLines, TableOpen)
             /\ Without(finalHtml', {UlOpen, UlClose}) = Join(processedLines, <<NL>>)]_vars

C8_Witness ==
  /\ pc = "returned"
  /\ Len(lines) = 2
  /\ IsTableRow(Trim(lines[1]))
  /\ LineKind(lines[2]) = "plain"
  /\ ~IsTableRow(Trim(lines[2]))
  /\ finalHtml = lines[2]

(***************************************************************************)
(* C9: markdownToHtml is total: the pass handles the lines one by one,     *)
(* each exactly once, and returns, whatever the input.                     *)
(***************************************************************************)
C9_Total ==
  /\ [][(pc = "loop" /\ pc' = "loop") => i' = i + 1]_vars
  /\ [](pc = "loop" => i \in 1..(Len(lines) + 1))
  /\ <>(pc \in {"returned", "shown"} /\ i = Len(lines) + 1)

C9_Witness ==
  /\ pc = "returned"
  /\ i = Len(lines) + 1
  /\ Len(lines) = MaxLines
  /\ inCodeBlock
  /\ inTable

(***************************************************************************)
(* C10: outside code and table buffering a line that starts with '###',    *)
(* '##' or '#' gives exactly one heading fragment, of level 3, 2 or 1      *)
(* (longest prefix first), whose text is the trimmed line without the      *)
(* prefix and one following space.                                         *)
(***************************************************************************)
HeadingOpen(level) == CASE level = 3 -> H3Open [] level = 2 -> H2Open [] level = 1 -> H1Open

HeadingClose(level) == CASE level = 3 -> H3Close [] level = 2 -> H2Close [] level = 1 -> H1Close

HeadingTags == {H1Open, H2Open, H3Open}

Heading(level, text) == <<HeadingOpen(level)>> \o text \o <<HeadingClose(level)>>

\* the level of a line that starts with '#': the longest of '###', '##', '#'
HashLevel(trimmed) ==
  IF StartsWith(trimmed, <<"#", "#", "#">>) THEN 3
  ELSE IF StartsWith(trimmed, <<"#", "#">>) THEN 2 ELSE 1

\* the line without its first n characters and without one space after them
AfterPrefix(trimmed, n) ==
  IF MatchAt(trimmed, n + 1, <<" ">>) THEN Substring(trimmed, n + 1) ELSE Substring(trimmed, n)

HeadingsIn(frags) ==
  Cardinality({k \in 1..Len(frags) : frags[k] # << >> /\ Head(frags[k]) \in HeadingTags})

C10_AnyHashLineIsHeading ==
  [][(AtBlockLine /\ StartsWith(CurrentTrimmed, <<"#">>))
       => /\ HeadingsIn(processedLines') = HeadingsIn(processedLines) + 1
          /\ Last(processedLines') =
               Heading(HashLevel(CurrentTrimmed),
                       AfterPrefix(CurrentTrimmed, HashLevel(CurrentTrimmed)))]_vars

\* amended: the prefix must be followed by a space
SpacedHashLevel(trimmed) ==
  IF StartsWith(trimmed, <<"#", "#", "#", " ">>) THEN 3
  ELSE IF StartsWith(trimmed, <<"#", "#", " ">>) THEN 2
  ELSE IF StartsWith(trimmed, <<"#", " ">>) THEN 1
  ELSE 0

C10_SpacedHashLineIsHeading ==
  [][(AtBlockLine /\ SpacedHashLevel(CurrentTrimmed) # 0)
       => /\ HeadingsIn(processedLines') = HeadingsIn(processedLines) + 1
          /\ Last(processedLines') =
               Heading(SpacedHashLevel(CurrentTrimmed),
                       SubSeq(CurrentTrimmed, SpacedHashLevel(CurrentTrimmed) + 2,
                              Len(CurrentTrimmed)))]_vars

C10_Witness ==
  /\ pc = "loop"
  /\ i = 3
  /\ IsTableRow(Trim(lines[1]))
  /\ lines[2] = <<"#", "#", "#", " ", "H">>
  /\ Last(processedLines) = <<H3Open, "H", H3Close>>

(***************************************************************************)
(* C11: a document of lines without block syntax, inline syntax or         *)
(* severity tokens is shown as its lines, each unchanged and in source     *)
(* order, joined with line-break fragments.                                *)
(***************************************************************************)
SeverityTokens == {TokCritical, TokHigh, TokMedium, TokLow, TokP0, TokP1, TokP2}

Contains(s, p) == \E k \in 1..Len(s) : MatchAt(s, k, p)

\* a non-blank line that no rule of the block pass, of the inline formatter
\* or of the severity badges recognizes
PlainText(line) ==
  /\ LineKind(line) = "plain"
  /\ ~IsFence(Trim(line))
  /\ ~IsTableRow(Trim(line))
  /\ ~Contains(line, Stars1)
  /\ \A tok \in SeverityTokens : ~Contains(line, tok)

PlainDocument == lines # << >> /\ \A k \in 1..Len(lines) : PlainText(lines[k])

C11_PlainLinesJoinedByBreaks ==
  (pc = "shown" /\ PlainDocument) => reportHtml = Join(lines, <<BrTag>>)

\* amended: the lines are joined by the newline of processedLines.join
C11_PlainLinesJoinedByNewlines ==
  (pc = "shown" /\ PlainDocument) => reportHtml = Join(lines, <<NL>>)

C11_Witness ==
  /\ pc = "shown"
  /\ PlainDocument
  /\ lines = << <<" ", "y">>, <<"x">> >>
  /\ reportHtml = <<" ", "y", NL, "x">>

(***************************************************************************)
(* C12: rendering keeps no state between calls: every call starts with     *)
(* empty parser state and buffers, and a call returns what any earlier     *)
(* call with the same argument returned, whatever was rendered in between. *)
(***************************************************************************)
C12_SameInputSameOutput ==
  /\ (pc = "loop" /\ i = 1)
       => (processedLines = << >> /\ ~inTable /\ tableBuffer = << >>
           /\ ~inCodeBlock /\ codeBuffer = << >>)
  /\ (pc \in {"returned", "shown"} /\ seen.any /\ seen.input = markdown)
       => finalHtml = seen.output

C12_Witness ==
  /\ pc = "returned"
  /\ seen.any
  /\ seen.old
  /\ seen.input = markdown
  /\ finalHtml = seen.output
  /\ inCodeBlock
  /\ finalHtml # << >>

(***************************************************************************)
(* C13: the LOW rule wraps whole words only: in the rendered report LOW is *)
(* inside the low-severity badge exactly when, in the text that was        *)
(* highlighted, neither the character before it nor the character after it *)
(* is a letter, a digit or an underscore.                                  *)
(***************************************************************************)
\* the badge opening the k-th character of the highlighted text lies in
BadgeOf(r, m, k) == IF m[k].badge = 0 THEN "" ELSE r[m[k].badge]

WholeWordAt(t, k, tok) ==
  MatchAt(t, k, tok) /\ ~IsWordAt(t, k - 1) /\ ~IsWordAt(t, k + Len(tok))

C13_LowWholeWordOnly ==
  pc = "shown" =>
    LET t == finalHtml
        r == reportHtml
        m == Marks(r)
    IN /\ Len(m) = Len(t)
       /\ \A k \in 1..Len(t) :
            MatchAt(t, k, TokLow) =>
              (BadgeOf(r, m, k) = SpanLow <=> WholeWordAt(t, k, TokLow))

(***************************************************************************)
(* C14: the flush of a table buffer of n >= 2 lines emits exactly one      *)
(* <table> fragment: its header row holds the cells of buffered line 0,    *)
(* it has exactly n-2 body rows, the j-th holding the cells of buffered    *)
(* line j+1 (0-based) in order and in their own number whatever the width  *)
(* of the header, and nothing of buffered line 1 is in it.                 *)
(***************************************************************************)
\* the place of the j-th token tok of s
NthPos(s, tok, j) ==
  CHOOSE k \in 1..Len(s) : s[k] = tok /\ CountTo(s, k, tok) = j

\* what lies between the j-th token open of s and the j-th token close
Between(s, open, close, j) ==
  SubSeq(s, NthPos(s, open, j) + 1, NthPos(s, close, j) - 1)

\* the texts of the cells in a piece of a row: what lies between each
\* opening tag and its closing tag
CellTexts(piece, open, close) ==
  [j \in 1..Count(piece, open) |-> Between(piece, open, close, j)]

TableFlushing == AtBlockLine /\ inTable /\ Len(tableBuffer) >= 2

C14_TableFlushShape ==
  [][TableFlushing =>
       /\ Len(processedLines') = Len(processedLines) + 2
       /\ CountAll(processedLines', TableOpen) = CountAll(processedLines, TableOpen) + 1
       /\ LET frag == processedLines'[Len(processedLines) + 1]
               n == Len(tableBuffer)
           IN /\ Head(frag) = TableOpen
              /\ Last(frag) = TableClose
              /\ Count(frag, TableMid) = 1
              /\ CellTexts(Between(frag, TableOpen, TableMid, 1), ThOpen, ThClose)
                   = Cells(tableBuffer[1])
              /\ Count(frag, TrOpen) = n - 2
              /\ Count(frag, TrClose) = n - 2
              /\ \A j \in 1..(n - 2) :
                   /\ CellTexts(Between(frag, TrOpen, TrClose, j), TdOpen, TdClose)
                        = Cells(tableBuffer[j + 2])
                   /\ Count(Between(frag, TrOpen, TrClose, j), TdOpen)
                        = Len(Cells(tableBuffer[j + 2]))
              /\ Len(frag) = 3 + Len(Concat(Cells(tableBuffer[1]))) + 2 * Len(Cells(tableBuffer[1]))
                            + 2 * (n - 2)
                            + Len(Concat(Concat([j \in 1..(n - 2) |-> Cells(tableBuffer[j + 2])])))
                            + 2 * Len(Concat([j \in 1..(n - 2) |-> Cells(tableBuffer[j + 2])]))]_vars

\* a header of two cells, a data row in the place of the separator, a body
\* row of one cell: the table has the one body row, of one cell
C14_Witness ==
  /\ pc = "loop"
  /\ i = 5
  /\ lines[1] = <<"|", "A", "|", "B", "|">>
  /\ lines[2] = <<"|", " ", "1", " ", "|">>
  /\ lines[3] = <<"|", " ", "1", " ", "|">>
  /\ lines[4] = <<"x">>
  /\ processedLines =
       << <<TableOpen, ThOpen, "A", ThClose, ThOpen, "B", ThClose, TableMid,
            TrOpen, TdOpen, "1", TdClose, TrClose, TableClose>>,
          <<"x">> >>

(***************************************************************************)
(* C15: whenever the parser is in a table and the current line is not a    *)
(* table row (a fence line and a line of a code block included), the table *)
(* buffer is flushed at that line: it is emptied, the table flag is reset, *)
(* and a buffer of two or more lines gives its table there; so the rows of *)
(* a table are always one contiguous run of lines, the run that ends right *)
(* before the line that flushes it.                                        *)
(***************************************************************************)
C15_NonRowLineEndsTable ==
  [][(InLoop /\ inTable /\ ~IsTableRow(CurrentTrimmed))
       => /\ tableBuffer' = << >>
          /\ ~inTable'
          /\ CountAll(processedLines', TableOpen)
               = CountAll(processedLines, TableOpen) + (IF Len(tableBuffer) >= 2 THEN 1 ELSE 0)
          /\ tableBuffer = SubSeq(lines, i - Len(tableBuffer), i - 1)]_vars

(***************************************************************************)
(* C16: fragments keep source order; in particular a table whose rows all  *)
(* come before a fenced code block is in the output before that code       *)
(* block.                                                                  *)
(***************************************************************************)
FenceIndexes(ls) == {k \in 1..Len(ls) : IsFence(Trim(ls[k]))}

\* a table (two rows or more) lies before the first code block, which is closed
TableBeforeCodeBlock(ls) ==
  /\ Cardinality(FenceIndexes(ls)) >= 2
  /\ \E r \in 1..Len(ls) :
       /\ r + 1 < Min(FenceIndexes(ls))
       /\ IsTableRow(Trim(ls[r]))
       /\ IsTableRow(Trim(ls[r + 1]))

C16_TableBeforeLaterCodeBlock ==
  (/\ pc = "returned"
   /\ TableBeforeCodeBlock(lines)
   /\ Count(finalHtml, TableOpen) >= 1
   /\ Count(finalHtml, PreOpen) >= 1)
    => NthPos(finalHtml, TableOpen, 1) < NthPos(finalHtml, PreOpen, 1)

(***************************************************************************)
(* C17: each line is handled by exactly one rule, the first that applies   *)
(* in the order fence, inside a code block, table row, heading, horizontal *)
(* rule, blockquote, unordered item, ordered item, non-blank plain line,   *)
(* blank line; in state Normal a line that is neither a fence nor a table  *)
(* row emits exactly one fragment; '***' and '---' give the horizontal     *)
(* rule, never an inline-formatted line or a list item.                    *)
(***************************************************************************)
\* the first rule of the list that applies to the current line
FirstRule ==
  LET t == CurrentTrimmed
  IN IF StartsWith(t, Fence) THEN "fence"
     ELSE IF inCodeBlock THEN "code"
     ELSE IF t # << >> /\ Head(t) = "|" /\ Last(t) = "|" THEN "row"
     ELSE IF SpacedHashLevel(t) # 0 THEN "heading"
     ELSE IF t \in {Dashes, Stars3} THEN "rule"
     ELSE IF StartsWith(t, <<">", " ">>) THEN "blockquote"
     ELSE IF StartsWith(t, <<"-", " ">>) THEN "item"
     ELSE IF \E d \in 1..Len(t) :
               /\ \A k \in 1..d : t[k] \in Digits
               /\ d + 2 <= Len(t) /\ t[d + 1] = "." /\ t[d + 2] \in Whitespace
          THEN "item"
     ELSE IF t # << >> THEN "plain"
     ELSE "blank"

BlockTags == HeadingTags \cup {HrTag, BqOpen, LiOpen, BrTag, TableOpen, PreOpen}

\* the rule a fragment comes from, by its first tag
FragmentRule(frag) ==
  IF frag = << >> THEN "plain"
  ELSE IF Head(frag) \in HeadingTags THEN "heading"
  ELSE IF Head(frag) = HrTag THEN "rule"
  ELSE IF Head(frag) = BqOpen THEN "blockquote"
  ELSE IF Head(frag) = LiOpen THEN "item"
  ELSE IF Head(frag) = BrTag THEN "blank"
  ELSE IF Head(frag) = TableOpen THEN "table"
  ELSE IF Head(frag) = PreOpen THEN "pre"
  ELSE "plain"

\* the step pushed nothing but, possibly, the fragments more
Pushed(more) == processedLines' = processedLines \o more

C17_OneRulePerLine ==
  [][InLoop =>
       LET rule == FirstRule
           new == SubSeq(processedLines', Len(processedLines) + 1, Len(processedLines'))
       IN /\ SubSeq(processedLines', 1, Len(processedLines)) = processedLines
          /\ rule = "fence" =>
               /\ inCodeBlock' = ~inCodeBlock
               /\ Len(new) = (IF inCodeBlock THEN 1 ELSE 0)
               /\ \A k \in 1..Len(new) : FragmentRule(new[k]) = "pre"
               /\ UNCHANGED <<inTable, tableBuffer>>
          /\ rule = "code" =>
               /\ codeBuffer' = Append(codeBuffer, CurrentLine)
               /\ new = << >>
               /\ UNCHANGED <<inCodeBlock, inTable, tableBuffer>>
          /\ rule = "row" =>
               /\ tableBuffer' # << >>
               /\ Last(tableBuffer') = CurrentLine
               /\ inTable'
               /\ new = << >>
               /\ UNCHANGED <<inCodeBlock, codeBuffer>>
          /\ rule \notin {"fence", "code", "row"} =>
               /\ new # << >>
               /\ FragmentRule(Last(new)) = rule
               /\ \A k \in 2..Len(Last(new)) : Last(new)[k] \notin BlockTags
               /\ (~inTable => Len(new) = 1)
               /\ \A k \in 1..(Len(new) - 1) : FragmentRule(new[k]) = "table"
               /\ UNCHANGED <<inCodeBlock, codeBuffer>>
          /\ (rule = "rule" /\ ~inTable) => new = << <<HrTag>> >>]_vars

C17_Witness ==
  /\ pc = "loop"
  /\ i = 3
  /\ Trim(lines[1]) = Dashes
  /\ lines[1] # Dashes
  /\ lines[2] = Stars3
  /\ processedLines = << <<HrTag>>, <<HrTag>> >>

(***************************************************************************)
(* C18: a fence line is never in the output and its language tag is        *)
(* ignored: outside a code block the code buffer is empty, so an opening   *)
(* fence starts with an empty buffer; fence lines toggle the code state    *)
(* strictly alternately (the parser is in a code block exactly after an    *)
(* odd number of fence lines); an opening fence pushes nothing, a closing  *)
(* fence the one <pre><code> fragment; the output has as many <pre><code>  *)
(* as closing fences, floor(fence lines / 2), and nothing of a fence line. *)
(***************************************************************************)
FencesBefore(k) == Cardinality({j \in 1..(k - 1) : StartsWith(Trim(lines[j]), Fence)})

C18_FenceLines ==
  /\ [](pc = "loop" =>
          /\ (~inCodeBlock => codeBuffer = << >>)
          /\ (inCodeBlock <=> FencesBefore(i) % 2 = 1)
          /\ CountAll(processedLines, PreOpen) = FencesBefore(i) \div 2)
  /\ [](pc = "returned" =>
          /\ Count(finalHtml, PreOpen) = FencesBefore(Len(lines) + 1) \div 2
          /\ Count(finalHtml, BackTick) = 0
          /\ Count(finalHtml, "j") = 0
          /\ Count(finalHtml, "s") = 0)
  /\ [][(InLoop /\ StartsWith(CurrentTrimmed, Fence)) =>
          /\ inCodeBlock' = ~inCodeBlock
          /\ (~inCodeBlock => processedLines' = processedLines)
          /\ (inCodeBlock =>
                /\ Len(processedLines') = Len(processedLines) + 1
                /\ SubSeq(processedLines', 1, Len(processedLines)) = processedLines
                /\ Head(Last(processedLines')) = PreOpen
                /\ Last(Last(processedLines')) = PreClose
                /\ Count(Last(processedLines'), BackTick) = 0)]_vars

\* a tagged fence opens, a bare fence closes, a tagged fence opens again
C18_Witness ==
  /\ pc = "returned"
  /\ lines = <<FenceJs, <<"x">>, Fence, FenceJs, <<"x">> >>
  /\ inCodeBlock
  /\ finalHtml = <<PreOpen, "x", PreClose>>

(***************************************************************************)
(* C19: inside a code block a line that is not a fence is appended, raw,   *)
(* to the code buffer and nothing else changes: no fragment is pushed, the *)
(* table flag and the table buffer stay as they are, and the line is not   *)
(* taken as a table row, a heading or any other kind of line.              *)
(***************************************************************************)
C19_CodeLineFrame ==
  [][(InLoop /\ inCodeBlock /\ ~StartsWith(CurrentTrimmed, Fence))
       => /\ codeBuffer' = codeBuffer \o <<lines[i]>>
          /\ i' = i + 1
          /\ UNCHANGED <<processedLines, inTable, tableBuffer, inCodeBlock,
                         markdown, lines, finalHtml, reportHtml, pc>>]_vars

\* a table row and a heading inside a code block opened while a table was
\* being buffered
C19_Witness ==
  /\ pc = "loop"
  /\ i = 5
  /\ IsTableRow(Trim(lines[1]))
  /\ IsFence(Trim(lines[2]))
  /\ IsTableRow(Trim(lines[3]))
  /\ LineKind(lines[4]) = "h3"
  /\ codeBuffer = <<lines[3], lines[4]>>
  /\ tableBuffer = <<lines[1]>>
  /\ inTable
  /\ inCodeBlock
  /\ processedLines = << >>

(***************************************************************************)
(* C20: the line that ends a table (not a table row, not a fence) is not   *)
(* consumed by the flush: the step leaves the table buffer empty and the   *)
(* state Normal, and pushes the table fragment (nothing for a buffer of    *)
(* one line) and right after it the fragment the line itself gives under   *)
(* the rules for headings, rules, quotes, items, text and blank lines.     *)
(***************************************************************************)
C20_TerminatorFallsThrough ==
  [][(AtBlockLine /\ inTable)
       => LET new == SubSeq(processedLines', Len(processedLines) + 1, Len(processedLines'))
          IN /\ SubSeq(processedLines', 1, Len(processedLines)) = processedLines
             /\ tableBuffer' = << >>
             /\ ~inTable'
             /\ ~inCodeBlock'
             /\ Len(new) = (IF Len(tableBuffer) >= 2 THEN 2 ELSE 1)
             /\ (Len(tableBuffer) >= 2 => FragmentRule(new[1]) = "table")
             /\ FragmentRule(Last(new)) = FirstRule
             /\ Last(new) = LineHtml(CurrentLine)
             /\ i' = i + 1]_vars

\* two rows, then a heading: the table, then the heading
C20_Witness ==
  /\ pc = "loop"
  /\ i = 4
  /\ IsTableRow(Trim(lines[1]))
  /\ IsTableRow(Trim(lines[2]))
  /\ lines[3] = <<"#", "#", "#", " ", "H">>
  /\ Len(processedLines) = 2
  /\ Head(processedLines[1]) = TableOpen
  /\ processedLines[2] = <<H3Open, "H", H3Close>>
  /\ ~inTable
  /\ tableBuffer = << >>

(***************************************************************************)
(* C21: of the pieces a table row splits into at its pipes only the empty  *)
(* first and last ones, made by the outer pipes, are dropped: a row with k *)
(* pipes gives k-1 cells, each the trimmed text between two neighbouring   *)
(* pipes, so an empty cell between two others stays an empty cell.         *)
(***************************************************************************)
PipeAt(row, j) == NthPos(row, "|", j)

\* the cells of a row whose first and last characters are pipes
CellsBetweenPipes(row) ==
  LET t == Trim(row)
  IN [j \in 1..(Count(t, "|") - 1) |-> Trim(SubSeq(t, PipeAt(t, j) + 1, PipeAt(t, j + 1) - 1))]

C21_CellsBetweenPipes ==
  [][TableFlushing =>
       LET frag == processedLines'[Len(processedLines) + 1]
       IN /\ CellTexts(Between(frag, TableOpen, TableMid, 1), ThOpen, ThClose)
               = CellsBetweenPipes(tableBuffer[1])
          /\ \A j \in 1..(Len(tableBuffer) - 2) :
               CellTexts(Between(frag, TrOpen, TrClose, j), TdOpen, TdClose)
                 = CellsBetweenPipes(tableBuffer[j + 2])]_vars

(***************************************************************************)
(* C22: the inline substitution touches list items and plain lines only:   *)
(* a heading, a blockquote, a table or a code block is pushed with every   *)
(* asterisk of its source and without any <strong> or <em> wrapper.        *)
(***************************************************************************)
InlineTags == {StrongOpen, StrongClose, EmOpen, EmClose}

Stars(s) == Count(s, "*")

\* the asterisks of the lines a fragment pushed in this step is made from
SourceStars(rule) ==
  CASE rule = "pre" -> Stars(Concat(codeBuffer))
    [] rule = "table" -> Stars(tableBuffer[1]) + Stars(Concat(SubSeq(tableBuffer, 3, Len(tableBuffer))))
    [] OTHER -> Stars(CurrentLine)

C22_InlineOnlyInItemsAndText ==
  [][InLoop =>
       \A k \in (Len(processedLines) + 1)..Len(processedLines') :
         LET frag == processedLines'[k]
             rule == FragmentRule(frag)
         IN rule \in {"heading", "blockquote", "table", "pre"} =>
              /\ \A j \in 1..Len(frag) : frag[j] \notin InlineTags
              /\ Stars(frag) = SourceStars(rule)]_vars

\* a quote and a heading keep their asterisks, the list item between them
\* has its <em>
C22_Witness ==
  /\ pc = "loop"
  /\ i = 4
  /\ processedLines =
       << <<BqOpen, "*", "q", "*", BqClose>>,
          <<LiOpen, EmOpen, "a", EmClose, LiClose>>,
          <<H1Open, "*", "h", "*", H1Close>> >>

\* a table and a code block keep their asterisks
C22_WitnessBuffers ==
  /\ pc = "loop"
  /\ \E k \in 1..Len(processedLines) :
       processedLines[k] = <<PreOpen, "*", "p", "*", PreClose>>

(***************************************************************************)
(* C23: the inline formatter makes two passes, neither recursive: from     *)
(* left to right, each leftmost shortest non-empty span between two double *)
(* asterisks becomes <strong> around its interior; then, over the result,  *)
(* each leftmost shortest non-empty span between two single asterisks      *)
(* becomes <em>. One '**x**' and no other asterisk gives one <strong> and  *)
(* no <em>; a line with a single asterisk is left as it is.                *)
(***************************************************************************)
\* a span starts at p: the delimiter d, one character or more, none of
\* them a line terminator, and d again at q
SpanFrom(s, p, q, d) ==
  /\ MatchAt(s, p, d)
  /\ MatchAt(s, q, d)
  /\ q >= p + Len(d) + 1
  /\ \A j \in (p + Len(d))..(q - 1) : s[j] \notin {NL, CR}

SpanStarts(s, from, d) ==
  {p \in from..Len(s) : \E q \in 1..Len(s) : SpanFrom(s, p, q, d)}

\* one pass: the leftmost span from position from on, the shortest one
\* there, wrapped; the pass goes on behind it
RECURSIVE WrapSpans(_, _, _, _, _)
WrapSpans(s, from, d, open, close) ==
  IF SpanStarts(s, from, d) = {} THEN SubSeq(s, from, Len(s))
  ELSE LET p == Min(SpanStarts(s, from, d))
           q == Min({e \in 1..Len(s) : SpanFrom(s, p, e, d)})
       IN SubSeq(s, from, p - 1) \o <<open>> \o SubSeq(s, p + Len(d), q - 1) \o <<close>>
            \o WrapSpans(s, q + Len(d), d, open, close)

TwoPasses(text) ==
  WrapSpans(WrapSpans(text, 1, <<"*", "*">>, StrongOpen, StrongClose), 1, <<"*">>, EmOpen, EmClose)

\* the text the step formats: the item without its marker, the whole plain line
FormattedText ==
  LET t == CurrentTrimmed
  IN IF FirstRule = "plain" THEN CurrentLine
     ELSE IF StartsWith(t, <<"-", " ">>) THEN SubSeq(t, 3, Len(t))
     ELSE SubSeq(t, NthPos(t, ".", 1) + 2, Len(t))

C23_BoldThenItalic ==
  [][(InLoop /\ FirstRule \in {"item", "plain"})
       => LET frag == Last(processedLines')
              body == IF FirstRule = "item" THEN SubSeq(frag, 2, Len(frag) - 1) ELSE frag
              text == FormattedText
          IN /\ body = TwoPasses(text)
             /\ (Stars(text) = 4 /\ (\E k \in 1..Len(text) : SpanFrom(text, k, k + 3, <<"*", "*">>)))
                  => (Count(body, StrongOpen) = 1 /\ Count(body, EmOpen) = 0)
             /\ Stars(text) = 1 => body = text]_vars

C23_Witness ==
  /\ pc = "returned"
  /\ lines = << <<"x", "*", "*", "x", "*", "*">> >>
  /\ finalHtml = <<"x", StrongOpen, "x", StrongClose>>

(***************************************************************************)
(* C24: the seven badge substitutions run one after the other without      *)
(* interfering: no rule matches text of a wrapper an earlier rule put in,  *)
(* every token a rule matches ends up in exactly one badge, of its own     *)
(* kind, and no badge lies inside another badge or inside a style          *)
(* attribute.                                                              *)
(***************************************************************************)
\* the characters of the wrappers (lines 939-945)
SpanCriticalChars ==
  <<"<", "s", "p", "a", "n", " ", "s", "t", "y", "l", "e", "=", "\"", "c",
    "o", "l", "o", "r", ":", " ", "#", "d", "c", "2", "6", "2", "6", ";",
    " ", "b", "a", "c", "k", "g", "r", "o", "u", "n", "d", ":", " ", "#",
    "f", "e", "e", "2", "e", "2", ";", " ", "p", "a", "d", "d", "i", "n",
    "g", ":", " ", "3", "p", "x", " ", "1", "0", "p", "x", ";", " ", "b",
    "o", "r", "d", "e", "r", "-", "r", "a", "d", "i", "u", "s", ":", " ",
    "6", "p", "x", ";", " ", "f", "o", "n", "t", "-", "w", "e", "i", "g",
    "h", "t", ":", " ", "7", "0", "0", ";", " ", "f", "o", "n", "t", "-",
    "s", "i", "z", "e", ":", " ", "0", ".", "8", "5", "e", "m", ";", "\"",
    ">">>

SpanHighChars ==
  <<"<", "s", "p", "a", "n", " ", "s", "t", "y", "l", "e", "=", "\"", "c",
    "o", "l", "o", "r", ":", " ", "#", "e", "a", "5", "8", "0", "c", ";",
    " ", "b", "a", "c", "k", "g", "r", "o", "u", "n", "d", ":", " ", "#",
    "f", "f", "e", "d", "d", "5", ";", " ", "p", "a", "d", "d", "i", "n",
    "g", ":", " ", "3", "p", "x", " ", "1", "0", "p", "x", ";", " ", "b",
    "o", "r", "d", "e", "r", "-", "r", "a", "d", "i", "u", "s", ":", " ",
    "6", "p", "x", ";", " ", "f", "o", "n", "t", "-", "w", "e", "i", "g",
    "h", "t", ":", " ", "7", "0", "0", ";", " ", "f", "o", "n", "t", "-",
    "s", "i", "z", "e", ":", " ", "0", ".", "8", "5", "e", "m", ";", "\"",
    ">">>

SpanMediumChars ==
  <<"<", "s", "p", "a", "n", " ", "s", "t", "y", "l", "e", "=", "\"", "c",
    "o", "l", "o", "r", ":", " ", "#", "c", "a", "8", "a", "0", "4", ";",
    " ", "b", "a", "c", "k", "g", "r", "o", "u", "n", "d", ":", " ", "#",
    "f", "e", "f", "3", "c", "7", ";", " ", "p", "a", "d", "d", "i", "n",
    "g", ":", " ", "3", "p", "x", " ", "1", "0", "p", "x", ";", " ", "b",
    "o", "r", "d", "e", "r", "-", "r", "a", "d", "i", "u", "s", ":", " ",
    "6", "p", "x", ";", " ", "f", "o", "n", "t", "-", "w", "e", "i", "g",
    "h", "t", ":", " ", "7", "0", "0", ";", " ", "f", "o", "n", "t", "-",
    "s", "i", "z", "e", ":", " ", "0", ".", "8", "5", "e", "m", ";", "\"",
    ">">>

SpanLowChars ==
  <<"<", "s", "p", "a", "n", " ", "s", "t", "y", "l", "e", "=", "\"", "c",
    "o", "l", "o", "r", ":", " ", "#", "1", "6", "a", "3", "4", "a", ";",
    " ", "b", "a", "c", "k", "g", "r", "o", "u", "n", "d", ":", " ", "#",
    "d", "c", "f", "c", "e", "7", ";", " ", "p", "a", "d", "d", "i", "n",
    "g", ":", " ", "3", "p", "x", " ", "1", "0", "p", "x", ";", " ", "b",
    "o", "r", "d", "e", "r", "-", "r", "a", "d", "i", "u", "s", ":", " ",
    "6", "p", "x", ";", " ", "f", "o", "n", "t", "-", "w", "e", "i", "g",
    "h", "t", ":", " ", "7", "0", "0", ";", " ", "f", "o", "n", "t", "-",
    "s", "i", "z", "e", ":", " ", "0", ".", "8", "5", "e", "m", ";", "\"",
    ">">>

SpanP0Chars ==
  <<"<", "s", "p", "a", "n", " ", "s", "t", "y", "l", "e", "=", "\"", "c",
    "o", "l", "o", "r", ":", " ", "#", "d", "c", "2", "6", "2", "6", ";",
    " ", "b", "a", "c", "k", "g", "r", "o", "u", "n", "d", ":", " ", "#",
    "f", "e", "e", "2", "e", "2", ";", " ", "p", "a", "d", "d", "i", "n",
    "g", ":", " ", "2", "p", "x", " ", "8", "p", "x", ";", " ", "b", "o",
    "r", "d", "e", "r", "-", "r", "a", "d", "i", "u", "s", ":", " ", "4",
    "p", "x", ";", " ", "f", "o", "n", "t", "-", "w", "e", "i", "g", "h",
    "t", ":", " ", "7", "0", "0", ";", " ", "f", "o", "n", "t", "-", "s",
    "i", "z", "e", ":", " ", "0", ".", "8", "e", "m", ";", "\"", ">">>

SpanP1Chars ==
  <<"<", "s", "p", "a", "n", " ", "s", "t", "y", "l", "e", "=", "\"", "c",
    "o", "l", "o", "r", ":", " ", "#", "e", "a", "5", "8", "0", "c", ";",
    " ", "b", "a", "c", "k", "g", "r", "o", "u", "n", "d", ":", " ", "#",
    "f", "f", "e", "d", "d", "5", ";", " ", "p", "a", "d", "d", "i", "n",
    "g", ":", " ", "2", "p", "x", " ", "8", "p", "x", ";", " ", "b", "o",
    "r", "d", "e", "r", "-", "r", "a", "d", "i", "u", "s", ":", " ", "4",
    "p", "x", ";", " ", "f", "o", "n", "t", "-", "w", "e", "i", "g", "h",
    "t", ":", " ", "7", "0", "0", ";", " ", "f", "o", "n", "t", "-", "s",
    "i", "z", "e", ":", " ", "0", ".", "8", "e", "m", ";", "\"", ">">>

SpanP2Chars ==
  <<"<", "s", "p", "a", "n", " ", "s", "t", "y", "l", "e", "=", "\"", "c",
    "o", "l", "o", "r", ":", " ", "#", "c", "a", "8", "a", "0", "4", ";",
    " ", "b", "a", "c", "k", "g", "r", "o", "u", "n", "d", ":", " ", "#",
    "f", "e", "f", "3", "c", "7", ";", " ", "p", "a", "d", "d", "i", "n",
    "g", ":", " ", "2", "p", "x", " ", "8", "p", "x", ";", " ", "b", "o",
    "r", "d", "e", "r", "-", "r", "a", "d", "i", "u", "s", ":", " ", "4",
    "p", "x", ";", " ", "f", "o", "n", "t", "-", "w", "e", "i", "g", "h",
    "t", ":", " ", "7", "0", "0", ";", " ", "f", "o", "n", "t", "-", "s",
    "i", "z", "e", ":", " ", "0", ".", "8", "e", "m", ";", "\"", ">">>

SpanCloseChars ==
  <<"<", "/", "s", "p", "a", "n", ">">>

WrapperChars ==
  {SpanCriticalChars, SpanHighChars, SpanMediumChars, SpanLowChars,
   SpanP0Chars, SpanP1Chars, SpanP2Chars, SpanCloseChars}

\* the token tok laid over the wrapper w from its character off + 1 on agrees
\* with w wherever the two overlap
TokenOver(w, tok, off) ==
  \A j \in 1..Len(tok) : (off + j) \in 1..Len(w) => w[off + j] = tok[j]

\* no token lies inside a wrapper or across one of its ends, and a wrapper
\* neither continues a word nor starts with the E of the HIGH lookahead
WrapperTextMatchesNoRule ==
  \A w \in WrapperChars :
    /\ \A tok \in SeverityTokens :
         \A off \in (1 - Len(tok))..(Len(w) - 1) : ~TokenOver(w, tok, off)
    /\ Head(w) \notin WordChars
    /\ Last(w) \notin WordChars

\* the seven rules in the order of the chain
BadgeRules ==
  << [tok |-> TokCritical, open |-> SpanCritical, rule |-> "literal"],
     [tok |-> TokHigh, open |-> SpanHigh, rule |-> "high"],
     [tok |-> TokMedium, open |-> SpanMedium, rule |-> "literal"],
     [tok |-> TokLow, open |-> SpanLow, rule |-> "low"],
     [tok |-> TokP0, open |-> SpanP0, rule |-> "literal"],
     [tok |-> TokP1, open |-> SpanP1, rule |-> "literal"],
     [tok |-> TokP2, open |-> SpanP2, rule |-> "literal"] >>

\* where a global pattern matches in t: from left to right, a match starts
\* behind the one before it
RECURSIVE MatchStarts(_, _, _)
MatchStarts(b, t, k) ==
  IF k > Len(t) THEN {}
  ELSE IF PatternAt(b.rule, t, k, b.tok)
       THEN {k} \cup MatchStarts(b, t, k + Len(b.tok))
       ELSE MatchStarts(b, t, k + 1)

\* the badge at place p of r holds its token and nothing else
BadgeWellFormed(r, p) ==
  \E n \in 1..Len(BadgeRules) :
    LET b == BadgeRules[n]
    IN /\ r[p] = b.open
       /\ MatchAt(r, p + 1, b.tok)
       /\ MatchAt(r, p + 1 + Len(b.tok), <<SpanClose>>)

C24_BadgesDoNotInterfere ==
  /\ WrapperTextMatchesNoRule
  /\ pc = "shown" =>
       LET t == finalHtml
           r == reportHtml
           m == Marks(r)
       IN /\ Without(r, BadgeOpens \cup {SpanClose}) = t
          /\ Len(m) = Len(t)
          /\ \A p \in 1..Len(r) : r[p] \in BadgeOpens => BadgeWellFormed(r, p)
          /\ Count(r, SpanClose) = Cardinality({p \in 1..Len(r) : r[p] \in BadgeOpens})
          /\ \A n \in 1..Len(BadgeRules) :
               \A k \in MatchStarts(BadgeRules[n], t, 1) :
                 /\ m[k].badge = m[k].at - 1
                 /\ r[m[k].badge] = BadgeRules[n].open

C24_Witness ==
  /\ pc = "shown"
  /\ finalHtml = TokCritical \o TokHigh \o TokP2
  /\ reportHtml = <<SpanCritical>> \o TokCritical \o <<SpanClose, SpanHigh>> \o TokHigh
                    \o <<SpanClose, SpanP2>> \o TokP2 \o <<SpanClose>>

(***************************************************************************)
(* C25: line endings are normalized before the split: "\r\n" counts as one *)
(* terminator, so does a "\r" alone; the number of lines is the number of  *)
(* terminators plus one; empty lines are kept; the empty text is one empty *)
(* line; and a document renders the same whether it is written with LF,    *)
(* CRLF or CR endings.                                                     *)
(***************************************************************************)
\* a "\r", or a "\n" that does not follow a "\r"
TerminatorAt(s, k) == s[k] = CR \/ (s[k] = NL /\ (k = 1 \/ s[k - 1] # CR))

Terminators(s) == Cardinality({k \in 1..Len(s) : TerminatorAt(s, k)})

C25_LineEndingsNormalized ==
  /\ pc # "called" =>
       /\ Len(lines) = Terminators(markdown) + 1
       /\ lines = WrittenLines(markdown)
       /\ \A k \in 1..Len(lines) : Count(lines[k], CR) = 0 /\ Count(lines[k], NL) = 0
       /\ markdown = << >> => lines = << << >> >>
  /\ (pc \in {"returned", "shown"} /\ seen.any /\ WrittenLines(seen.input) = WrittenLines(markdown))
       => finalHtml = seen.output

C25_Witness ==
  /\ pc = "returned"
  /\ seen.any
  /\ seen.input = <<"x", CR, NL, CR, NL, "|">>
  /\ markdown = <<"x", CR, CR, "|">>
  /\ lines = << <<"x">>, << >>, <<"|">> >>
  /\ finalHtml = seen.output

(***************************************************************************)
(* C26: a '- ' item and an 'N. ' item push the same list-item fragment,    *)
(* the formatted text behind the marker between the same two tags, and a   *)
(* run of consecutive items of either kind, mixed or not, ends up in one   *)
(* enclosing list.                                                         *)
(***************************************************************************)
ItemLine(line) ==
  LET t == Trim(line)
  IN \/ StartsWith(t, <<"-", " ">>)
     \/ \E d \in 1..Len(t) :
          /\ \A k \in 1..d : t[k] \in Digits
          /\ d + 2 <= Len(t) /\ t[d + 1] = "." /\ t[d + 2] \in Whitespace

BlankLine(line) == \A k \in 1..Len(line) : line[k] \in Whitespace

\* no line of ls opens a code block or a table
OnlyBlockLines(ls) ==
  \A k \in 1..Len(ls) :
    LET t == Trim(ls[k])
    IN ~StartsWith(t, Fence) /\ ~(t # << >> /\ Head(t) = "|" /\ Last(t) = "|")

\* the number of maximal runs of consecutive item lines
ItemRuns(ls) ==
  Cardinality({k \in 1..Len(ls) : ItemLine(ls[k]) /\ (k = 1 \/ ~ItemLine(ls[k - 1]))})

BlankNumber(ls, k) == Cardinality({j \in 1..k : BlankLine(ls[j])})

C27_BlankLineIsOneBreak ==
  /\ [][(InLoop /\ ~inCodeBlock /\ ~inTable /\ BlankLine(CurrentLine))
          => processedLines' = Append(processedLines, <<BrTag>>)]_vars
  /\ []((pc = "returned" /\ \A k \in 1..Len(lines) : BlankLine(lines[k]))
          => finalHtml = Join([k \in 1..Len(lines) |-> <<BrTag>>], <<NL>>))
  /\ []((pc = "returned" /\ markdown = << >>) => finalHtml = <<BrTag>>)
  /\ []((pc = "returned" /\ OnlyBlockLines(lines))
          => \A k \in 2..(Len(lines) - 1) :
               (ItemLine(lines[k - 1]) /\ BlankLine(lines[k]) /\ ItemLine(lines[k + 1]))
                 => LET p == NthPos(finalHtml, BrTag, BlankNumber(lines, k))
                    IN /\ UlDepth(finalHtml, p) = 0
                       /\ finalHtml[p - 1] = UlClose
                       /\ SubSeq(finalHtml, p + 1, p + 2) = <<NL, UlOpen>>)

C27_Witness ==
  /\ pc = "returned"
  /\ lines = << <<"1", ".", " ", "b">>, <<" ">>, <<"1", ".", " ", "b">> >>
  /\ finalHtml = <<UlOpen, LiOpen, "b", LiClose, NL, UlClose, BrTag, NL,
                    UlOpen, LiOpen, "b", LiClose, UlClose>>

(***************************************************************************)
(* C28: the buffers agree with the flags. The code buffer is non-empty     *)
(* only while inCodeBlock is true and holds the raw lines behind the fence *)
(* that opened the block; the table buffer is non-empty only while inTable *)
(* is true and holds the raw table rows taken since inTable last became    *)
(* true; both in the order of the source.                                  *)
(***************************************************************************)
FenceAt(k) == StartsWith(Trim(lines[k]), Fence)

\* line k lies behind an opening fence that is not closed yet
InCodeAt(k) == Cardinality({j \in 1..(k - 1) : FenceAt(j)}) % 2 = 1

\* what the loop does with line k
StepOf(k) ==
  LET t == Trim(lines[k])
  IN IF FenceAt(k) THEN "fence"
     ELSE IF InCodeAt(k) THEN "code"
     ELSE IF t # << >> /\ Head(t) = "|" /\ Last(t) = "|" THEN "row"
     ELSE "block"

\* the last line before line k with that step, 0 when there is none
LastOf(kind, k) ==
  LET S == {j \in 1..(k - 1) : StepOf(j) = kind}
  IN IF S = {} THEN 0 ELSE CHOOSE j \in S : \A n \in S : n <= j

\* the lines from..to with that step, in order
LinesOf(kind, from, to) ==
  LET idx == SelectSeq([j \in 1..(to - from + 1) |-> from + j - 1], LAMBDA j : StepOf(j) = kind)
  IN [n \in 1..Len(idx) |-> lines[idx[n]]]

C28_BuffersAgreeWithFlags ==
  pc \in {"loop", "returned"} =>
    /\ codeBuffer # << >> => inCodeBlock
    /\ tableBuffer # << >> => inTable
    /\ inCodeBlock = InCodeAt(i)
    /\ codeBuffer = IF inCodeBlock THEN SubSeq(lines, LastOf("fence", i) + 1, i - 1) ELSE << >>
    /\ tableBuffer = LinesOf("row", LastOf("block", i) + 1, i - 1)
    /\ inTable = (tableBuffer # << >>)

C28_Witness ==
  /\ pc = "loop"
  /\ i = 6
  /\ lines = << <<" ", "|", "A", "|", " ">>, Fence, <<" ", "y">>, Fence, <<" ", "|", "A", "|", " ">> >>
  /\ tableBuffer = <<lines[1], lines[5]>>
  /\ codeBuffer = << >>
  /\ inTable /\ ~inCodeBlock
  /\ processedLines = << CodeHtml(<< <<" ", "y">> >>) >>

(***************************************************************************)
(* C29: handleGenerateReport always releases the generating flag. When a   *)
(* pre-check fails an error message is set, no request is sent and         *)
(* isGenerating stays false; otherwise isGenerating is true for as long as *)
(* the call is under way, it is false when the call has run to its end,    *)
(* whatever the outcome, and the call does come to its end.                *)
(***************************************************************************)
Generating == GenerateCalls # {}

PreCheckFails ==
  projectName = "" \/ documents = 0 \/ apiKey \in {"", " "}

C29_GeneratingFlagReleased ==
  /\ [][(HandleGenerateReport /\ PreCheckFails)
          => (error' # "" /\ calls' = calls /\ ~isGenerating')]_vars
  /\ [][(HandleGenerateReport /\ ~PreCheckFails) => (Generating' /\ isGenerating')]_vars
  /\ [](isGenerating <=> Generating)
  /\ [][(Generating /\ ~Generating') => ~isGenerating']_vars
  /\ (isGenerating ~> ~isGenerating)

C29_Witness ==
  /\ ~isGenerating
  /\ calls = {}
  /\ error = GenerateFailed
  /\ report = Null

C29_WitnessPreCheck ==
  /\ ~isGenerating
  /\ calls = {}
  /\ error = MissingKey
  /\ projectName = "P"
  /\ documents = 1

(***************************************************************************)
(* C30: whatever the order of the handlers and of the answers to their     *)
(* requests, currentAssessmentId is the assessment of the report shown,    *)
(* and once a reset has run the report stays null and the view stays       *)
(* 'upload' until a generation is started or a report is opened after it.  *)
(***************************************************************************)
C30_SameAssessment ==
  /\ currentAssessmentId # Null => report = currentAssessmentId
  /\ report = Null => currentAssessmentId = Null

C30_ResetHolds ==
  /\ C30_SameAssessment
  /\ sinceReset => (report = Null /\ view = "upload")

====
